---- MODULE Spec2Model ----
(***************************************************************************)
(* Model of the transfer engine of the batch downloader:                   *)
(*   core/downloader.py  DownloadManager (scheduler) and DownloadWorker    *)
(*   core/utils.py       SizeCalculator                                    *)
(* and of the listing engine:                                              *)
(*   core/cache_manager.py  DirectoryCache                                 *)
(*   core/lister.py         DirectoryLister (the caching crawler)          *)
(*                                                                         *)
(* The scheduler's handlers run on the GUI thread, one at a time, so each  *)
(* handler is one action.  A worker is a thread of its own: its run() is   *)
(* cut at every point where it reads state the GUI thread writes           *)
(* (_is_running, _is_paused), touches the local file, or emits a signal.   *)
(* Signals a worker emits (progress, finished, error) cross threads, so    *)
(* they are queued and handled later, in emission order (variable          *)
(* events).                                                                *)
(*                                                                         *)
(* Reading of _on_worker_finished (downloader.py:190-201): lines 199-201   *)
(* are taken as statements of the handler that follow the `if`; when the   *)
(* worker id is not in active_workers the `del` raises and the handler     *)
(* ends there, so the only state change is the byte counter.  The lock     *)
(* taken on line 195 serialises the handler and has no other effect.       *)
(*                                                                         *)
(* Sizes are counted in bytes; the remote content of a file of n bytes is  *)
(* the byte sequence <<1, ..., n>>, so a local file's content shows which  *)
(* remote bytes were written and in which order.                           *)
(***************************************************************************)
EXTENDS Integers, Sequences, FiniteSets, TLC

VARIABLES
    config,                  \* DownloadManager.config (read-only lookup)
    downloads,               \* DownloadManager.downloads
    download_queue,          \* DownloadManager.download_queue
    active_workers,          \* DownloadManager.active_workers: url -> worker (0 = no key)
    file_sizes,              \* DownloadManager.file_sizes: url -> size (-1 = no key)
    total_bytes_to_download, \* DownloadManager.total_bytes_to_download
    total_bytes_downloaded,  \* DownloadManager.total_bytes_downloaded
    base_folder,             \* DownloadManager.base_folder
    calcs,                   \* SizeCalculator threads that have not reported yet
    workers,                 \* every DownloadWorker created so far, in creation order
    events,                  \* worker signals queued for the scheduler's thread
    disk,                    \* local files: path -> content
    budget,                  \* remaining environment steps (user requests, network faults)
    obs,                     \* what an observer of the signals and the queue has seen
    now,                     \* datetime.now(), in hours
    cache_dir,               \* DirectoryCache.cache_dir: file name -> file
    memory_cache,            \* MemoryCache shared by the listers, least recently used first
    lister,                  \* the DirectoryLister thread
    cache_obs                \* what the callers of the cache and of the lister have seen

vars == << config, downloads, download_queue, active_workers, file_sizes,
           total_bytes_to_download, total_bytes_downloaded, base_folder,
           calcs, workers, events, disk, budget, obs,
           now, cache_dir, memory_cache, lister, cache_obs >>

cache_vars == << now, cache_dir, memory_cache, lister, cache_obs >>

(***************************************************************************)
(* Bounds of the model.                                                    *)
(***************************************************************************)
MaxConcurrent == 2      \* largest max_concurrent_downloads tried
MaxAttempts == 2        \* largest retry_attempts tried
MaxEnqueues == 2        \* start_downloads calls per behaviour
MaxUserOps == 1         \* pause/resume/cancel/retry requests per behaviour of Spec
MaxRequests == 2        \* the same, per behaviour of SpecRequests
MaxFaults == 1          \* injected network failures per behaviour
ChunkBytes == 2         \* chunk_size, in bytes

(***************************************************************************)
(* The remote side and the selections a caller can make.                   *)
(***************************************************************************)
URL_HTTP == "http://h/x/a"
URL_FTP == "ftp://h/x/b"
URL_EMPTY == "http://h/x/z"
URL_OTHER == "sftp://h/x/c"
\* a file whose server sends no content-length header (chunked encoding)
URL_STREAM == "http://h/x/s"
URLS == {URL_HTTP, URL_FTP, URL_EMPTY, URL_OTHER, URL_STREAM}

\* urlparse(url).scheme.lower()
SchemeOf(url) ==
    CASE url = URL_FTP -> "ftp"
      [] url = URL_OTHER -> "sftp"
      [] OTHER -> "http"

\* length of the remote file behind a url
RemoteSize(url) ==
    CASE url \in { URL_HTTP, URL_STREAM } -> 3
      [] url = URL_FTP -> 2
      [] OTHER -> 0

\* int(headers.get('content-length', 0)) of the answer to a request for the
\* content from offset resumed on; ftp.size() when resumed = 0
ContentLength(url, resumed) ==
    IF url = URL_STREAM THEN 0 ELSE RemoteSize(url) - resumed

\* relative paths are sequences of path components
REL_FLAT == << "f" >>
REL_DEEP == << "d", "f" >>
REL_OTHER == << "g" >>
ROOT_A == << "A" >>
ROOTS == {ROOT_A, << "B" >>}

\* statuses: Queued, Downloading, Paused, Completed, Failed, Canceled
ActiveStatuses == {"Queued", "Downloading", "Paused"}

(***************************************************************************)
(* Helpers: sequences and paths.                                           *)
(***************************************************************************)
Min(a, b) == IF a < b THEN a ELSE b

\* os.path.join(a, b) for a relative b
PathJoin(a, b) == a \o b

\* os.path.dirname(p)
PathDirname(p) == SubSeq(p, 1, Len(p) - 1)

\* urllib.parse.unquote on a relative path; no component of the modelled
\* selections carries a percent escape
Unquote(rel) == rel

\* os.path.exists / os.path.getsize
FileExists(d, path) == path \in DOMAIN d
FileSize(d, path) == Len(d[path])

\* the disk after content is stored at path
DiskPut(d, path, content) ==
    [ q \in (DOMAIN d) \cup {path} |-> IF q = path THEN content ELSE d[q] ]

\* bytes from+1 .. to of the remote content
Bytes(from, to) == [ i \in 1..(to - from) |-> from + i ]

(***************************************************************************)
(* Records.                                                                *)
(***************************************************************************)
\* the dict appended to DownloadManager.downloads
NewDownload(url, rel_path, size, file_path) ==
    [ url |-> url, rel_path |-> rel_path, status |-> "Queued", progress |-> 0,
      size |-> size, file_path |-> file_path ]

\* DownloadWorker.__init__.  Observation fields: seq numbers the queue entry
\* the worker was started for; start and written are the offset the current
\* attempt resumed from and the bytes it has written; first_start is the
\* offset of the worker's first attempt (-1 before it); started counts the
\* attempts the worker has begun and retrying the "Retrying" notifications
\* it has emitted; was_paused tells whether the worker ever blocked in wait();
\* paused_writes counts the chunks written with _is_paused set since the
\* last pause() and stopped_writes those written after stop().
NewWorker(url, rel_path, folder, total_size, seq) ==
    [ url |-> url, rel_path |-> rel_path, base_folder |-> folder,
      total_size |-> total_size,
      running |-> TRUE, paused |-> FALSE,
      bytes_downloaded_this_session |-> 0,
      pc |-> "loop", attempt |-> 0,
      downloaded_bytes |-> 0, total |-> 0, pos |-> 0, chunk |-> << >>,
      start |-> 0, written |-> << >>, first_start |-> -1,
      started |-> 0, retrying |-> 0,
      was_paused |-> FALSE, paused_writes |-> 0, stopped_writes |-> 0,
      seq |-> seq ]

\* a signal queued for the scheduler's thread
Event(type, url, a, b) == [ type |-> type, url |-> url, a |-> a, b |-> b ]

\* the file a worker writes: os.path.join(self.base_folder, unquote(self.rel_path))
LocalFilename(w) == PathJoin(w.base_folder, Unquote(w.rel_path))

(***************************************************************************)
(* Scheduler state as one value, so that a handler that calls other        *)
(* handlers is a composition of functions on it.                           *)
(***************************************************************************)
Mgr ==
    [ config |-> config, downloads |-> downloads, queue |-> download_queue,
      active |-> active_workers, file_sizes |-> file_sizes,
      to_download |-> total_bytes_to_download,
      downloaded |-> total_bytes_downloaded,
      base_folder |-> base_folder, workers |-> workers, obs |-> obs ]

Commit(m) ==
    /\ downloads' = m.downloads
    /\ download_queue' = m.queue
    /\ active_workers' = m.active
    /\ file_sizes' = m.file_sizes
    /\ total_bytes_to_download' = m.to_download
    /\ total_bytes_downloaded' = m.downloaded
    /\ base_folder' = m.base_folder
    /\ workers' = m.workers
    /\ obs' = m.obs
    /\ UNCHANGED << config, cache_vars >>

\* keys of active_workers, len(active_workers)
ActiveUrls(active) == { u \in URLS : active[u] # 0 }
NumActive(active) == Cardinality(ActiveUrls(active))

\* index of the first entry of a list that satisfies a test, 0 if none
FirstIndex(list, Test(_)) ==
    LET hits == { i \in 1..Len(list) : Test(list[i]) }
    IN IF hits = {} THEN 0 ELSE CHOOSE i \in hits : \A j \in hits : i <= j

\* DownloadManager._update_download_status
UpdateDownloadStatus(list, url, status) ==
    LET IsUrl(d) == d.url = url
        i == FirstIndex(list, IsUrl)
    IN IF i = 0 THEN list
       ELSE [ list EXCEPT ![i] =
                [ @ EXCEPT !.status = status,
                           !.progress = IF status = "Completed" THEN 100 ELSE @ ] ]

\* DownloadManager.update_progress
UpdateProgress(list, url, done, total) ==
    LET IsUrl(d) == d.url = url
        i == FirstIndex(list, IsUrl)
    IN IF i = 0 THEN list
       ELSE [ list EXCEPT ![i].progress =
                IF total # 0 THEN (done * 100) \div total ELSE 0 ]

\* a mutation of HasFreeSlot: the pool admits one worker too many
HasFreeSlotOffByOne(m) ==
    NumActive(m.active) <= m.config.max_concurrent_downloads

\* len(self.active_workers) < max_workers
HasFreeSlot(m) ==
    NumActive(m.active) < m.config.max_concurrent_downloads

\* the while loop of DownloadManager.check_queue
RECURSIVE DispatchLoop(_)
DispatchLoop(m) ==
    IF m.queue # << >> /\ HasFreeSlot(m)
    THEN LET k == 1   \* queue.pop(0)
             url == m.queue[k][1]
             rel == m.queue[k][2]
             seq == m.obs.qseq[k]
             rest(q) == SubSeq(q, 1, k - 1) \o SubSeq(q, k + 1, Len(q))
             IsQueued(d) == d.url = url /\ d.rel_path = rel /\ d.status = "Queued"
             i == FirstIndex(m.downloads, IsQueued)
             popped == [ m EXCEPT !.queue = rest(@), !.obs.qseq = rest(@),
                                  !.obs.pops = @ + 1 ]
         IN IF i = 0 THEN DispatchLoop(popped)
            ELSE LET folder == PathDirname(m.downloads[i].file_path)
                     size == IF m.file_sizes[url] < 0 THEN 0 ELSE m.file_sizes[url]
                     worker == NewWorker(url, rel, folder, size, seq)
                 IN DispatchLoop(
                      [ popped EXCEPT
                          !.workers = Append(@, worker),
                          !.active[url] = Len(m.workers) + 1,
                          !.downloads = UpdateDownloadStatus(@, url, "Downloading") ])
    ELSE m

\* DownloadManager.check_queue
CheckQueue(m) ==
    IF m.queue = << >> /\ NumActive(m.active) = 0
    THEN IF m.downloaded >= m.to_download - 1
         THEN [ m EXCEPT !.obs.all_finished = @ + 1 ]
         ELSE m
    ELSE DispatchLoop(m)

\* the first loop of _on_size_calc_finished; sizes maps the resolved urls
RecordSizes(m, sizes) ==
    LET fresh == { u \in DOMAIN sizes : m.file_sizes[u] < 0 }
        RECURSIVE Sum(_)
        Sum(S) == IF S = {} THEN 0
                  ELSE LET u == CHOOSE x \in S : TRUE IN sizes[u] + Sum(S \ {u})
    IN [ m EXCEPT
           !.file_sizes = [ u \in URLS |-> IF u \in fresh THEN sizes[u] ELSE @[u] ],
           !.to_download = @ + Sum(fresh) ]

\* a mutation of IsKnownPair: only entries that are being transferred count
IsKnownPairRunningOnly(list, url, rel) ==
    \E i \in 1..Len(list) :
        list[i].url = url /\ list[i].rel_path = rel /\ list[i].status = "Downloading"

\* any(d['url'] == url and d['rel_path'] == rel_path for d in self.downloads)
IsKnownPair(list, url, rel) ==
    \E i \in 1..Len(list) : list[i].url = url /\ list[i].rel_path = rel

\* the second loop of _on_size_calc_finished
RECURSIVE AddEntries(_, _, _, _)
AddEntries(m, sizes, tuples, root) ==
    IF tuples = << >> THEN m
    ELSE LET url == Head(tuples)[1]
             rel == Head(tuples)[2]
             known == IsKnownPair(m.downloads, url, rel)
             \* line 156: the folder is self.base_folder as it is now
             entry == NewDownload(url, rel, m.file_sizes[url],
                                  PathJoin(m.base_folder, rel))
         IN IF url \in DOMAIN sizes /\ ~known
            THEN AddEntries(
                   [ m EXCEPT !.downloads = Append(@, entry),
                              !.queue = Append(@, << url, rel >>),
                              !.obs.qseq = Append(@, m.obs.appended + 1),
                              !.obs.appended = @ + 1 ],
                   sizes, Tail(tuples), root)
            ELSE AddEntries(
                   [ m EXCEPT !.obs.skipped =
                       IF url \in DOMAIN sizes THEN @ + 1 ELSE @ ],
                   sizes, Tail(tuples), root)

\* DownloadManager._on_size_calc_finished
OnSizeCalcFinished(m, sizes, tuples, root) ==
    LET m1 == AddEntries(RecordSizes(m, sizes), sizes, tuples, root)
    IN IF m1.queue = << >> /\ NumActive(m1.active) = 0
       THEN [ m1 EXCEPT !.obs.all_finished = @ + 1 ]
       ELSE CheckQueue(m1)

\* new_urls of DownloadManager.start_downloads
NewUrls(m, tuples) ==
    { tuples[i][1] : i \in 1..Len(tuples) }
      \ ( { m.downloads[i].url :
              i \in { j \in 1..Len(m.downloads) : m.downloads[j].status \in ActiveStatuses } }
          \cup ActiveUrls(m.active) )

(***************************************************************************)
(* DownloadWorker methods called from the scheduler's thread.              *)
(***************************************************************************)
\* DownloadWorker.pause
WorkerPause(w) ==
    IF w.running /\ ~w.paused
    THEN [ w EXCEPT !.paused = TRUE, !.paused_writes = 0 ]
    ELSE w

\* a resume after which the woken worker goes for the next chunk
WorkerResumeDropsChunk(w) ==
    IF w.paused
    THEN [ w EXCEPT !.paused = FALSE,
                    !.chunk = IF w.pc = "wait" THEN << >> ELSE @,
                    !.pc = IF @ = "wait" THEN "iter" ELSE @ ]
    ELSE w

\* DownloadWorker.resume; wakeAll releases a worker blocked in wait(), which
\* goes on to write the chunk it holds
WorkerResume(w) ==
    IF w.paused
    THEN [ w EXCEPT !.paused = FALSE,
                    !.pc = IF @ = "wait" THEN "write" ELSE @ ]
    ELSE w

\* DownloadWorker.stop
WorkerStop(w) ==
    [ w EXCEPT !.running = FALSE,
               !.paused = FALSE,
               !.pc = IF w.paused /\ @ = "wait" THEN "write" ELSE @ ]

(***************************************************************************)
(* Initial state: DownloadManager.__init__, a configuration, and a disk    *)
(* that is empty or holds the first byte of a file from an earlier run.    *)
(***************************************************************************)
Pairs == URLS \X {REL_FLAT, REL_DEEP, REL_OTHER}

InitialDisks == { << >>, [ p \in { PathJoin(ROOT_A, REL_FLAT) } |-> << 1 >> ] }

\* the state after DownloadManager.__init__, for a set of configurations,
\* a set of initial disks and the environment's budget
InitManager(maxima, attempts, disks, b) ==
    /\ config \in [ max_concurrent_downloads : maxima, retry_attempts : attempts ]
    /\ downloads = << >>
    /\ download_queue = << >>
    /\ active_workers = [ u \in URLS |-> 0 ]
    /\ file_sizes = [ u \in URLS |-> -1 ]
    /\ total_bytes_to_download = 0
    /\ total_bytes_downloaded = 0
    /\ base_folder = << >>
    /\ calcs = << >>
    /\ workers = << >>
    /\ events = << >>
    /\ disk \in disks
    /\ budget = b
    /\ obs = [ all_finished |-> 0, pops |-> 0, appended |-> 0, skipped |-> 0,
               failed_by_cancel |-> FALSE, qseq |-> << >>,
               roots |-> << >>, progress |-> [ p \in Pairs |-> -1 ] ]

(***************************************************************************)
(* Scheduler actions.                                                      *)
(***************************************************************************)
\* DownloadManager.start_downloads
StartDownloads(tuples, root) ==
    /\ budget.enqueues > 0
    /\ budget' = [ budget EXCEPT !.enqueues = @ - 1 ]
    /\ base_folder' = root
    /\ UNCHANGED obs
    /\ calcs' = IF NewUrls(Mgr, tuples) = {} THEN calcs
                ELSE Append(calcs, [ urls |-> NewUrls(Mgr, tuples),
                                     tuples |-> tuples, root |-> root ])
    /\ UNCHANGED << cache_vars, config, downloads, download_queue, active_workers, file_sizes,
                    total_bytes_to_download, total_bytes_downloaded,
                    workers, events, disk >>

\* _get_http_size / _get_ftp_size: the size of the remote file, -1 when the
\* request fails
MeasuredSize(url, failed) == IF url \in failed THEN -1 ELSE ContentLength(url, 0)

RECURSIVE SumOver(_, _)
SumOver(S, f) ==
    IF S = {} THEN 0
    ELSE LET u == CHOOSE x \in S : TRUE IN f[u] + SumOver(S \ {u}, f)

\* a size calculation that keeps the urls it could not size
SizeCalculatorRunKeepsFailed(urls, failed) ==
    LET map == [ u \in urls |-> MeasuredSize(u, failed) ]
    IN [ file_sizes_map |-> map, total_size |-> SumOver(DOMAIN map, map) ]

\* SizeCalculator.run: the map and the total it emits with finished
SizeCalculatorRun(urls, failed) ==
    LET sized == { u \in urls : MeasuredSize(u, failed) >= 0 }
        map == [ u \in sized |-> MeasuredSize(u, failed) ]
    IN [ file_sizes_map |-> map, total_size |-> SumOver(DOMAIN map, map) ]

\* SizeCalculator.run reports: the urls in failed could not be sized
SizeCalcFinished(k, failed) ==
    /\ k \in 1..Len(calcs)
    /\ failed \subseteq calcs[k].urls
    /\ Cardinality(failed) <= budget.faults
    /\ budget' = [ budget EXCEPT !.faults = @ - Cardinality(failed) ]
    /\ LET calc == calcs[k]
           sizes == SizeCalculatorRun(calc.urls, failed).file_sizes_map
           after == OnSizeCalcFinished(Mgr, sizes, calc.tuples, calc.root)
       IN Commit([ after EXCEPT
                     !.obs.roots = @ \o [ i \in 1..(Len(after.downloads) - Len(downloads))
                                            |-> calc.root ] ])
    /\ calcs' = SubSeq(calcs, 1, k - 1) \o SubSeq(calcs, k + 1, Len(calcs))
    /\ UNCHANGED << events, disk >>

\* DownloadManager._on_worker_finished
OnWorkerFinished ==
    /\ events # << >>
    /\ Head(events).type = "finished"
    /\ LET e == Head(events)
           m == [ Mgr EXCEPT !.downloaded = @ + e.a ]
       IN IF m.active[e.url] # 0
          THEN Commit(CheckQueue(
                 [ m EXCEPT !.downloads = UpdateDownloadStatus(@, e.url, "Completed"),
                            !.active[e.url] = 0 ]))
          ELSE Commit(m)
    /\ events' = Tail(events)
    /\ UNCHANGED << calcs, disk, budget >>

\* DownloadManager._on_worker_error
OnWorkerError ==
    /\ events # << >>
    /\ Head(events).type = "error"
    /\ LET e == Head(events)
           m == Mgr
       IN IF m.active[e.url] # 0
          THEN Commit(CheckQueue(
                 [ m EXCEPT !.downloads = UpdateDownloadStatus(@, e.url, "Failed"),
                            !.active[e.url] = 0,
                            !.obs.failed_by_cancel = @ \/ (e.b = 1) ]))
          ELSE Commit(m)
    /\ events' = Tail(events)
    /\ UNCHANGED << calcs, disk, budget >>

\* DownloadManager._on_file_progress_update
OnFileProgressUpdate ==
    /\ events # << >>
    /\ Head(events).type = "progress"
    /\ LET e == Head(events)
       IN Commit([ Mgr EXCEPT !.downloads = UpdateProgress(@, e.url, e.a, e.b) ])
    /\ events' = Tail(events)
    /\ UNCHANGED << calcs, disk, budget >>

UserOp ==
    /\ budget.ops > 0
    /\ budget' = [ budget EXCEPT !.ops = @ - 1 ]
    /\ UNCHANGED << calcs, events, disk >>

\* a worker method applied to the worker registered for url
OnActive(m, url, Method(_), status) ==
    [ m EXCEPT !.workers[m.active[url]] = Method(@),
               !.downloads = UpdateDownloadStatus(@, url, status) ]

\* DownloadManager.pause_file
PauseFile(url) ==
    /\ UserOp
    /\ LET m == Mgr
       IN Commit(IF m.active[url] # 0 THEN OnActive(m, url, WorkerPause, "Paused") ELSE m)

\* DownloadManager.resume_file
ResumeFile(url) ==
    /\ UserOp
    /\ LET m == Mgr
       IN Commit(IF m.active[url] # 0 THEN OnActive(m, url, WorkerResume, "Downloading") ELSE m)

\* DownloadManager.cancel_file
CancelFile(url) ==
    /\ UserOp
    /\ LET m == Mgr
       IN Commit(IF m.active[url] # 0 THEN OnActive(m, url, WorkerStop, "Canceled") ELSE m)

\* a worker method and a status applied to every entry of active_workers
RECURSIVE OnAllActive(_, _, _, _)
OnAllActive(m, urls, Method(_), status) ==
    IF urls = {} THEN m
    ELSE LET u == CHOOSE x \in urls : TRUE
         IN OnAllActive(OnActive(m, u, Method, status), urls \ {u}, Method, status)

\* DownloadManager.pause_all
PauseAll ==
    /\ UserOp
    /\ LET m == Mgr
       IN Commit(OnAllActive(m, ActiveUrls(m.active), WorkerPause, "Paused"))

\* DownloadManager.resume_all
ResumeAll ==
    /\ UserOp
    /\ LET m == Mgr
       IN Commit(OnAllActive(m, ActiveUrls(m.active), WorkerResume, "Downloading"))

\* the second loop of cancel_all: queued entries become Canceled
CancelQueued(list, queue) ==
    [ i \in 1..Len(list) |->
        IF /\ list[i].status = "Queued"
           /\ \E k \in 1..Len(queue) :
                 queue[k][1] = list[i].url /\ queue[k][2] = list[i].rel_path
        THEN [ list[i] EXCEPT !.status = "Canceled", !.progress = 0 ]
        ELSE list[i] ]

\* DownloadManager.cancel_all
CancelAll ==
    /\ UserOp
    /\ LET m == Mgr
           m1 == OnAllActive(m, ActiveUrls(m.active), WorkerStop, "Canceled")
       IN Commit([ m1 EXCEPT !.downloads = CancelQueued(@, m1.queue),
                             !.queue = << >>,
                             !.obs.qseq = << >> ])

\* DownloadManager.retry_download
RetryDownload(url) ==
    /\ UserOp
    /\ LET m == Mgr
           Retriable(d) == d.url = url /\ d.status \in {"Failed", "Canceled"}
           i == FirstIndex(m.downloads, Retriable)
       IN Commit(IF i = 0 THEN m
                 ELSE CheckQueue(
                        [ m EXCEPT !.downloads[i].status = "Queued",
                                   !.downloads[i].progress = 0,
                                   !.queue = Append(@, << url, m.downloads[i].rel_path >>),
                                   !.obs.qseq = Append(@, m.obs.appended + 1),
                                   !.obs.appended = @ + 1 ]))

(***************************************************************************)
(* The worker thread: DownloadWorker.run and the two transfer routines.    *)
(* pc: "loop"  at the head of the attempt loop (also the state of a        *)
(*             started thread that has not run yet)                        *)
(*     "iter"  transfer open, about to receive the next chunk              *)
(*     "wait"  holding a chunk, blocked in pause_cond.wait                 *)
(*     "write" holding a chunk, past the running/paused test               *)
(*     "done"  run() has returned                                          *)
(***************************************************************************)
\* a tail of run() that reports the end of the thread whatever the flag says
AfterLoopAlwaysFinished(w, evs) ==
    [ worker |-> [ w EXCEPT !.pc = "done" ],
      events |-> Append(evs, Event("finished", w.url,
                                   w.bytes_downloaded_this_session, w.seq)) ]

\* the tail of run(): the statement after the attempt loop; the signal is
\* tagged with the sender's seq for the observer
AfterLoop(w, evs) ==
    [ worker |-> [ w EXCEPT !.pc = "done" ],
      events |-> IF w.running
                 THEN Append(evs, Event("finished", w.url,
                                        w.bytes_downloaded_this_session, w.seq))
                 ELSE evs ]

\* a test that lets the loop run one attempt more than configured
IsLastAttemptOneMore(attempt, attempts) == attempt + 1 > attempts

\* the test on line 42: the attempt that failed was the last of the loop
IsLastAttempt(attempt, attempts) == attempt + 1 >= attempts

\* the except clause of run() for an attempt that raised; the error signal
\* is tagged with the sender's seq (a) for the observer and marked (b = 1)
\* when what the attempt raised was the cancel
AttemptFailed(w, evs, attempts, canceled) ==
    IF IsLastAttempt(w.attempt, attempts)
    THEN AfterLoop([ w EXCEPT !.attempt = @ + 1 ],
                   Append(evs, Event("error", w.url, w.seq, IF canceled THEN 1 ELSE 0)))
    ELSE [ worker |-> [ w EXCEPT !.attempt = @ + 1, !.pc = "loop",
                                 !.retrying = @ + 1 ],
           events |-> evs ]

\* a transfer that asks for the whole content but appends to the file
OpenTransferNoRange(w, resumed) ==
    [ w EXCEPT !.pc = "iter",
               !.downloaded_bytes = resumed,
               !.total = IF w.total_size # 0 THEN w.total_size
                         ELSE ContentLength(w.url, resumed) + resumed,
               !.pos = 0,
               !.start = resumed,
               !.first_start = IF @ < 0 THEN resumed ELSE @,
               !.written = << >> ]

\* a transfer that counts its progress from zero whatever the file holds
OpenTransferCountFromZero(w, resumed) ==
    [ w EXCEPT !.pc = "iter",
               !.downloaded_bytes = 0,
               !.total = IF w.total_size # 0 THEN w.total_size
                         ELSE ContentLength(w.url, resumed) + resumed,
               !.pos = resumed,
               !.start = resumed,
               !.first_start = IF @ < 0 THEN resumed ELSE @,
               !.written = << >> ]

\* the transfer an attempt opens on a file that holds `resumed` bytes: the
\* request is answered from offset `resumed`, the local file is opened for
\* appending when resumed > 0 and created empty otherwise
OpenTransfer(w, resumed) ==
    [ w EXCEPT !.pc = "iter",
               !.downloaded_bytes = resumed,
               !.total = IF w.total_size # 0 THEN w.total_size
                         ELSE ContentLength(w.url, resumed) + resumed,
               !.pos = resumed,
               !.start = resumed,
               !.first_start = IF @ < 0 THEN resumed ELSE @,
               !.written = << >> ]

\* the offset a transfer resumes from: os.path.getsize of an existing file
ResumeOffset(d, path) == IF FileExists(d, path) THEN FileSize(d, path) ELSE 0

\* run(), from the head of the loop to the open transfer (lines 35-38,
\* 51-61 and 75-82)
WorkerAttempt(i) ==
    /\ i \in 1..Len(workers)
    /\ workers[i].pc = "loop"
    /\ LET w == workers[i]
           path == LocalFilename(w)
           resumed == ResumeOffset(disk, path)
       IN IF ~w.running
          THEN \* break, then the test on line 47 fails
               /\ workers' = [ workers EXCEPT ![i].pc = "done" ]
               /\ UNCHANGED << events, disk >>
          ELSE IF \/ SchemeOf(w.url) \notin {"http", "ftp"}
                  \/ SchemeOf(w.url) = "http" /\ resumed > 0 /\ resumed >= RemoteSize(w.url)
          THEN \* an unsupported scheme raises ValueError (line 39); a range
               \* that starts at or past the end is refused (416)
               LET r == AttemptFailed([ w EXCEPT !.started = @ + 1 ],
                                      events, config.retry_attempts, FALSE)
               IN /\ workers' = [ workers EXCEPT ![i] = r.worker ]
                  /\ events' = r.events
                  /\ UNCHANGED disk
          ELSE /\ workers' = [ workers EXCEPT ![i] =
                                OpenTransfer([ w EXCEPT !.started = @ + 1 ], resumed) ]
               /\ disk' = IF resumed > 0 THEN disk ELSE DiskPut(disk, path, << >>)
               /\ UNCHANGED events
    /\ UNCHANGED << cache_vars, config, downloads, download_queue, active_workers, file_sizes,
                    total_bytes_to_download, total_bytes_downloaded, base_folder,
                    calcs, budget, obs >>

\* the connection of an attempt fails (requests.get / FTP() raises)
WorkerConnectFails(i) ==
    /\ i \in 1..Len(workers)
    /\ workers[i].pc = "loop"
    /\ workers[i].running
    /\ SchemeOf(workers[i].url) \in {"http", "ftp"}
    /\ budget.faults > 0
    /\ budget' = [ budget EXCEPT !.faults = @ - 1 ]
    /\ LET r == AttemptFailed([ workers[i] EXCEPT !.started = @ + 1 ],
                              events, config.retry_attempts, FALSE)
       IN /\ workers' = [ workers EXCEPT ![i] = r.worker ]
          /\ events' = r.events
    /\ UNCHANGED << cache_vars, config, downloads, download_queue, active_workers, file_sizes,
                    total_bytes_to_download, total_bytes_downloaded, base_folder,
                    calcs, disk, obs >>

\* the stream breaks before the next chunk arrives
WorkerStreamFails(i) ==
    /\ i \in 1..Len(workers)
    /\ workers[i].pc = "iter"
    /\ workers[i].pos < RemoteSize(workers[i].url)
    /\ budget.faults > 0
    /\ budget' = [ budget EXCEPT !.faults = @ - 1 ]
    /\ LET r == AttemptFailed(workers[i], events, config.retry_attempts, FALSE)
       IN /\ workers' = [ workers EXCEPT ![i] = r.worker ]
          /\ events' = r.events
    /\ UNCHANGED << cache_vars, config, downloads, download_queue, active_workers, file_sizes,
                    total_bytes_to_download, total_bytes_downloaded, base_folder,
                    calcs, disk, obs >>

\* what a worker that finds _is_running false at the chunk test does:
\* _download_http returns (line 64), the FTP callback raises (line 86)
CanceledAtChunk(w, evs, attempts) ==
    IF SchemeOf(w.url) = "http"
    THEN AfterLoop(w, evs)
    ELSE AttemptFailed(w, evs, attempts, TRUE)

\* a worker that goes on to write whatever the pause flag says
PauseTestNoWait(w) == "write"

\* the test on lines 65 and 87, under the mutex: a paused worker blocks in
\* pause_cond.wait, any other goes on to write
PauseTest(w) == IF w.paused THEN "wait" ELSE "write"

\* the next chunk arrives and the worker takes the mutex (lines 62-65 and
\* 85-87), or the stream ends and the transfer routine returns; pos is the
\* position of the stream, which the chunk the worker now holds has left
WorkerNextChunk(i) ==
    /\ i \in 1..Len(workers)
    /\ workers[i].pc = "iter"
    /\ LET w == workers[i]
           size == RemoteSize(w.url)
           r == IF w.pos >= size THEN AfterLoop(w, events)
                ELSE IF ~w.running
                     THEN CanceledAtChunk(w, events, config.retry_attempts)
                ELSE [ worker |-> [ w EXCEPT
                                      !.chunk = Bytes(w.pos, Min(w.pos + ChunkBytes, size)),
                                      !.pos = Min(w.pos + ChunkBytes, size),
                                      !.pc = PauseTest(w),
                                      !.was_paused = @ \/ w.paused ],
                       events |-> events ]
       IN /\ workers' = [ workers EXCEPT ![i] = r.worker ]
          /\ events' = r.events
    /\ UNCHANGED << cache_vars, config, downloads, download_queue, active_workers, file_sizes,
                    total_bytes_to_download, total_bytes_downloaded, base_folder,
                    calcs, disk, budget, obs >>

\* the count a progress signal carries after a chunk of n bytes
ProgressCount(w, n) == w.downloaded_bytes + n

\* f.write(chunk) and the accounting after it (lines 67-71 and 88-92)
WorkerWrite(i) ==
    /\ i \in 1..Len(workers)
    /\ workers[i].pc = "write"
    /\ LET w == workers[i]
           path == LocalFilename(w)
           n == Len(w.chunk)
           old == IF FileExists(disk, path) THEN disk[path] ELSE << >>
       IN /\ disk' = DiskPut(disk, path, old \o w.chunk)
          /\ workers' = [ workers EXCEPT ![i] =
                            [ w EXCEPT !.pc = "iter",
                                       !.downloaded_bytes = ProgressCount(w, n),
                                       !.bytes_downloaded_this_session = @ + n,
                                       !.written = @ \o w.chunk,
                                       !.paused_writes = IF w.paused THEN @ + 1 ELSE @,
                                       !.stopped_writes = IF w.running THEN @ ELSE @ + 1,
                                       !.chunk = << >> ] ]
          /\ events' = Append(events, Event("progress", w.url,
                                            ProgressCount(w, n), w.total))
          /\ obs' = [ obs EXCEPT !.progress[<< w.url, w.rel_path >>] = ProgressCount(w, n) ]
    /\ UNCHANGED << cache_vars, config, downloads, download_queue, active_workers, file_sizes,
                    total_bytes_to_download, total_bytes_downloaded, base_folder,
                    calcs, budget >>

(***************************************************************************)
(* The specification.                                                      *)
(***************************************************************************)
\* the requests a user can make of the scheduler while transfers run
\* (a request that finds nothing to act on changes no state and is left out)
UserRequests ==
    \/ \E url \in ActiveUrls(active_workers) : PauseFile(url)
    \/ \E url \in ActiveUrls(active_workers) : ResumeFile(url)
    \/ \E url \in ActiveUrls(active_workers) : CancelFile(url)
    \/ ActiveUrls(active_workers) # {} /\ PauseAll
    \/ ActiveUrls(active_workers) # {} /\ ResumeAll
    \/ (ActiveUrls(active_workers) # {} \/ download_queue # << >>) /\ CancelAll
    \/ \E i \in { j \in 1..Len(downloads) :
                      downloads[j].status \in {"Failed", "Canceled"} } :
           RetryDownload(downloads[i].url)

\* the scheduler's handlers of queued signals
Handlers ==
    \/ \E k \in 1..Len(calcs) : \E failed \in SUBSET calcs[k].urls : SizeCalcFinished(k, failed)
    \/ OnWorkerFinished
    \/ OnWorkerError
    \/ OnFileProgressUpdate

\* the steps of the worker threads
WorkerSteps ==
    \/ \E i \in 1..Len(workers) : WorkerAttempt(i)
    \/ \E i \in 1..Len(workers) : WorkerNextChunk(i)
    \/ \E i \in 1..Len(workers) : WorkerWrite(i)

NetworkFaults ==
    \/ \E i \in 1..Len(workers) : WorkerConnectFails(i)
    \/ \E i \in 1..Len(workers) : WorkerStreamFails(i)

(***************************************************************************)
(* The listing cache: core/cache_manager.py DirectoryCache.                *)
(*                                                                         *)
(* A cache file is the text json.dump wrote, kept as its sequence of       *)
(* tokens, so that reading an entry is parsing that text and a damaged     *)
(* file is a text json.load rejects.  Time is counted in hours.            *)
(***************************************************************************)
MaxClock == 48          \* the clock stops here
ClockStep == 12         \* hours between two observations of the clock
MaxCacheOps == 3        \* calls of the cache by callers other than the lister
MaxCrawls == 2          \* DirectoryLister threads per behaviour

LIST_HTTP == "http://h/dir/"
LIST_FTP == "ftp://h/dir/"
LIST_OTHER == "sftp://h/dir/"
\* roots of a directory tree
TREE_HTTP == "http://h/tree/"
TREE_FTP == "ftp://h/tree/"
TreeUrls == { TREE_HTTP, TREE_FTP }
\* a directory whose listing links to the directory itself (href "./")
LOOP_HTTP == "http://h/loop/"
ListUrls == { LIST_HTTP, LIST_FTP, LIST_OTHER } \cup TreeUrls

File(name) == [ name |-> name, type |-> "File" ]
Dir(name) == [ name |-> name, type |-> "Directory" ]

\* the listings a caller hands to set()
Listings == { << >>, << Dir("b"), File("a.txt") >>, << File("c.txt"), File("a.txt"), Dir("b") >> }

manager_vars == << config, downloads, download_queue, active_workers, file_sizes,
                   total_bytes_to_download, total_bytes_downloaded, base_folder,
                   calcs, workers, events, disk, budget, obs >>

\* timedelta(hours=24)
cache_duration == 24

\* hashlib.md5(url).hexdigest(), abbreviated
Md5(url) ==
    CASE url = LIST_HTTP -> "0f1e"
      [] url = LIST_FTP -> "a27c"
      [] url = TREE_HTTP -> "77b0"
      [] url = TREE_FTP -> "c4e5"
      [] OTHER -> "d903"

\* DirectoryCache._get_cache_key
GetCacheKey(url) == "cache_" \o Md5(url) \o ".json"

CacheFiles == { GetCacheKey(url) : url \in ListUrls }

NoFile == [ exists |-> FALSE, text |-> << >> ]

\* the values of the clock
Times == { t \in 0..MaxClock : t % ClockStep = 0 }

\* datetime.isoformat and datetime.fromisoformat
IsoFormat(t) == ToString(t)

FromIsoFormat(s) ==
    IF \E t \in Times : IsoFormat(t) = s
    THEN [ ok |-> TRUE, time |-> CHOOSE t \in Times : IsoFormat(t) = s ]
    ELSE [ ok |-> FALSE, time |-> 0 ]

RECURSIVE DumpItems(_)
DumpItems(items) ==
    IF items = << >> THEN << >>
    ELSE << "{", Head(items).name, Head(items).type, "}" >> \o DumpItems(Tail(items))

\* json.dump of the dict that set() builds
JsonDump(data) ==
    << "{", "timestamp", data.timestamp, "url", data.url, "content", "[" >>
        \o DumpItems(data.content) \o << "]", "}" >>

\* json.load: ok is FALSE where the library raises JSONDecodeError
JsonLoad(text) ==
    LET n == Len(text)
        body == SubSeq(text, 8, n - 2)
        k == Len(body) \div 4
        wellformed ==
            /\ n >= 9
            /\ text[1] = "{" /\ text[2] = "timestamp" /\ text[4] = "url"
            /\ text[6] = "content" /\ text[7] = "[" /\ text[n - 1] = "]" /\ text[n] = "}"
            /\ Len(body) % 4 = 0
            /\ \A i \in 1..k : body[4 * i - 3] = "{" /\ body[4 * i] = "}"
    IN IF wellformed
       THEN [ ok |-> TRUE, timestamp |-> text[3], url |-> text[5],
              content |-> [ i \in 1..k |-> [ name |-> body[4 * i - 2],
                                             type |-> body[4 * i - 1] ] ] ]
       ELSE [ ok |-> FALSE, timestamp |-> "", url |-> "", content |-> << >> ]

\* the value None of a get()
None == [ hit |-> FALSE, content |-> << >> ]

\* the test of line 39
IsFreshOrAtExpiry(t, cache_time, duration) == t - cache_time <= duration

IsFresh(t, cache_time, duration) == t - cache_time < duration

\* a get() that removes the file it has just served
DirectoryCacheGetRemoves(dir, url, t, duration) ==
    LET cache_file == GetCacheKey(url)
        data == JsonLoad(dir[cache_file].text)
    IN IF dir[cache_file].exists /\ data.ok
       THEN [ result |-> [ hit |-> TRUE, content |-> data.content ],
              dir |-> [ dir EXCEPT ![cache_file] = NoFile ], error |-> "" ]
       ELSE [ result |-> None, dir |-> dir, error |-> "" ]

\* DirectoryCache.get at time t: what it returns, the directory it leaves and
\* the exception it logs
DirectoryCacheGet(dir, url, t, duration) ==
    LET cache_file == GetCacheKey(url)
        file == dir[cache_file]
        data == JsonLoad(file.text)
        cache_time == FromIsoFormat(data.timestamp)
    IN IF ~file.exists THEN [ result |-> None, dir |-> dir, error |-> "" ]
       ELSE IF ~data.ok
       THEN [ result |-> None, dir |-> dir, error |-> "JSONDecodeError" ]
       ELSE IF ~cache_time.ok
       THEN [ result |-> None, dir |-> dir, error |-> "ValueError" ]
       ELSE IF IsFresh(t, cache_time.time, duration)
       THEN [ result |-> [ hit |-> TRUE, content |-> data.content ],
              dir |-> dir, error |-> "" ]
       ELSE [ result |-> None, dir |-> [ dir EXCEPT ![cache_file] = NoFile ],
              error |-> "" ]

\* a set() that loses the last item of the listing
DirectoryCacheSetDropsLast(dir, url, content, t) ==
    [ dir EXCEPT ![GetCacheKey(url)] =
        [ exists |-> TRUE,
          text |-> JsonDump([ timestamp |-> IsoFormat(t), url |-> url,
                              content |-> SubSeq(content, 1, Len(content) - 1) ]) ] ]

\* DirectoryCache.set at time t
DirectoryCacheSet(dir, url, content, t) ==
    [ dir EXCEPT ![GetCacheKey(url)] =
        [ exists |-> TRUE,
          text |-> JsonDump([ timestamp |-> IsoFormat(t), url |-> url,
                              content |-> content ]) ] ]

\* DirectoryCache.clear_expired at time t: expired and unreadable files go
DirectoryCacheClearExpired(dir, t, duration) ==
    [ f \in CacheFiles |->
        LET data == JsonLoad(dir[f].text)
            cache_time == FromIsoFormat(data.timestamp)
        IN IF ~dir[f].exists THEN dir[f]
           ELSE IF ~data.ok \/ ~cache_time.ok THEN NoFile
           ELSE IF t - cache_time.time >= duration THEN NoFile
           ELSE dir[f] ]

\* DirectoryCache.clear_all
DirectoryCacheClearAll(dir) == [ f \in CacheFiles |-> NoFile ]

\* the caller's record of an op on the cache
Noted(o, op, url, result) ==
    [ o EXCEPT !.last = [ op |-> op, url |-> url, at |-> now,
                         again |-> url \in ListUrls /\ o.purged[url] ],
               !.result = result ]

\* a caller reads the cache
CacheGet(url) ==
    /\ cache_obs.ops > 0
    /\ LET got == DirectoryCacheGet(cache_dir, url, now, cache_duration)
           removed == cache_dir[GetCacheKey(url)].exists /\ ~got.dir[GetCacheKey(url)].exists
       IN /\ cache_dir' = got.dir
          /\ cache_obs' = [ Noted(cache_obs, "get", url, got.result) EXCEPT
                              !.ops = @ - 1,
                              !.purged[url] = @ \/ removed,
                              !.intact[url] = @ /\ ~removed ]
    /\ UNCHANGED << manager_vars, now, memory_cache, lister >>

\* a caller stores a listing
CacheSet(url, content) ==
    /\ cache_obs.ops > 0
    /\ cache_dir' = DirectoryCacheSet(cache_dir, url, content, now)
    /\ cache_obs' = [ Noted(cache_obs, "set", url, None) EXCEPT
                        !.ops = @ - 1,
                        !.purged[url] = FALSE,
                        !.intact[url] = TRUE,
                        !.set_items[url] = content,
                        !.set_at[url] = now ]
    /\ UNCHANGED << manager_vars, now, memory_cache, lister >>

\* which urls have lost the file a set() wrote
Lost(before, after) ==
    { url \in ListUrls : before[GetCacheKey(url)] # after[GetCacheKey(url)] }

ClearExpired ==
    /\ cache_obs.ops > 0
    /\ LET after == DirectoryCacheClearExpired(cache_dir, now, cache_duration)
       IN /\ cache_dir' = after
          /\ cache_obs' = [ Noted(cache_obs, "clear_expired", "", None) EXCEPT
                              !.ops = @ - 1,
                              !.intact = [ url \in ListUrls |->
                                             @[url] /\ url \notin Lost(cache_dir, after) ] ]
    /\ UNCHANGED << manager_vars, now, memory_cache, lister >>

ClearAll ==
    /\ cache_obs.ops > 0
    /\ \E f \in CacheFiles : cache_dir[f].exists
    /\ cache_dir' = DirectoryCacheClearAll(cache_dir)
    /\ cache_obs' = [ Noted(cache_obs, "clear_all", "", None) EXCEPT
                        !.ops = @ - 1,
                        !.intact = [ url \in ListUrls |-> FALSE ] ]
    /\ UNCHANGED << manager_vars, now, memory_cache, lister >>

\* the ways a cache file gets damaged: a write cut short, a foreign timestamp
Damaged(text) ==
    { SubSeq(text, 1, 0), SubSeq(text, 1, 7), [ text EXCEPT ![3] = "yesterday" ] }

\* the file system leaves a damaged file where set() wrote one
CorruptFile(url) ==
    /\ cache_obs.faults > 0
    /\ cache_dir[GetCacheKey(url)].exists
    /\ JsonLoad(cache_dir[GetCacheKey(url)].text).ok
    /\ \E text \in Damaged(cache_dir[GetCacheKey(url)].text) :
           cache_dir' = [ cache_dir EXCEPT ![GetCacheKey(url)].text = text ]
    /\ cache_obs' = [ cache_obs EXCEPT !.faults = @ - 1,
                                       !.intact[url] = FALSE,
                                       !.last = [ op |-> "damage", url |-> url,
                                                  at |-> now, again |-> FALSE ] ]
    /\ UNCHANGED << manager_vars, now, memory_cache, lister >>

\* time passes
Tick ==
    /\ now + ClockStep <= MaxClock
    /\ now' = now + ClockStep
    /\ UNCHANGED << manager_vars, cache_dir, memory_cache, lister, cache_obs >>

(***************************************************************************)
(* The memory tier (MemoryCache): a bounded map url -> listing with the    *)
(* entry's time, least recently used entry first, evicted first.           *)
(***************************************************************************)
MemoryCacheSize == 2    \* memory_cache_size
MaxMemoryOps == 4       \* calls of the memory tier per behaviour

Without(mem, url) == SelectSeq(mem, LAMBDA e : e.url # url)

\* a get that leaves the order of the entries alone
MemoryCacheGetNoTouch(mem, url, t, duration) ==
    LET found == SelectSeq(mem, LAMBDA e : e.url = url)
    IN IF found = << >> THEN [ result |-> None, mem |-> mem ]
       ELSE IF t - found[1].time < duration
       THEN [ result |-> [ hit |-> TRUE, content |-> found[1].content ], mem |-> mem ]
       ELSE [ result |-> None, mem |-> Without(mem, url) ]

\* MemoryCache.get: a valid entry becomes the most recently used one, an
\* expired one is dropped
MemoryCacheGet(mem, url, t, duration) ==
    LET found == SelectSeq(mem, LAMBDA e : e.url = url)
    IN IF found = << >> THEN [ result |-> None, mem |-> mem ]
       ELSE IF t - found[1].time < duration
       THEN [ result |-> [ hit |-> TRUE, content |-> found[1].content ],
              mem |-> Append(Without(mem, url), found[1]) ]
       ELSE [ result |-> None, mem |-> Without(mem, url) ]

\* MemoryCache.set: the entry becomes the most recently used one and the
\* least recently used ones go while the map is over its size
MemoryCacheSet(mem, url, content, t, max_size) ==
    LET all == Append(Without(mem, url), [ url |-> url, content |-> content, time |-> t ])
    IN IF Len(all) > max_size THEN SubSeq(all, Len(all) - max_size + 1, Len(all)) ELSE all

(***************************************************************************)
(* The crawlers: DirectoryLister of src/core/lister.py (plain) and of      *)
(* src/src/core/lister.py (cached and paginated).  A crawl is a walk over  *)
(* the remote tree with one call frame [dir, depth, i] per directory being *)
(* listed, i counting the entries its loop has gone through:               *)
(* pc: "run"         run() of the cached lister, before the cache look-up  *)
(*     "replay"      _emit_cached_items, at the head of its loop           *)
(*     "replay_emit" past the loop's tests, about to emit the item         *)
(*     "fetch"       run(), about to call _list_* for the root             *)
(*     "enter"       at the top of a recursive call of _list_*             *)
(*     "request"     past the tests at the top, about to ask the server    *)
(*     "list"        at the head of the loop over the listing's entries    *)
(*     "emit"        past the loop's tests, about to emit the entry        *)
(*     "store"       _list_* has returned to run()                         *)
(*     "done"        run() has returned                                    *)
(***************************************************************************)
\* the root directory of a crawl
TopDir == "/"

\* what the server lists for directory dir under the root url: the flat
\* directories hold files only; the tree has sub and t in its root and deep
\* in sub
DirListing(url, dir) ==
    CASE url = LIST_HTTP -> << File("c.txt"), File("a.txt"), File("d.txt") >>
      [] url = LIST_FTP -> << File("a.txt") >>
      [] url \in TreeUrls /\ dir = TopDir -> << Dir("sub"), File("a.txt"), Dir("t") >>
      [] url \in TreeUrls /\ dir = "sub" -> << File("in.txt"), Dir("deep") >>
      [] url \in TreeUrls /\ dir = "deep" -> << File("x.txt") >>
      [] url \in TreeUrls /\ dir = "t" -> << File("y.txt") >>
      [] url = LOOP_HTTP -> << Dir(TopDir), File("a.txt") >>
      [] OTHER -> << >>

ListingScheme(url) ==
    CASE url \in { LIST_HTTP, TREE_HTTP, LOOP_HTTP } -> "http"
      [] url \in { LIST_FTP, TREE_FTP } -> "ftp"
      [] OTHER -> "sftp"

\* `if cached_data:`
Truthy(result) == result.hit /\ result.content # << >>


\* config.get('listing_depth', 3)
DefaultListingDepth == 3

\* a lister before its construction.  Observation fields: emitted is the
\* sequence of item_found signals, requests counts the listing requests,
\* listed and failed are the directories whose request was answered and
\* was refused, late_items and late_requests count the items emitted and
\* the requests made after cancel(), held_valid and held are the cache
\* entry of the url when run() began.
NoLister ==
    [ pc |-> "idle", url |-> "", use_cache |-> FALSE, page_size |-> 0,
      paginated |-> TRUE, listing_depth |-> DefaultListingDepth, stack |-> << >>,
      cancelled |-> FALSE, items |-> << >>, emitted |-> << >>, requests |-> 0,
      status |-> "", errors |-> 0, finished |-> 0,
      listed |-> {}, failed |-> {}, late_items |-> 0, late_requests |-> 0,
      held_valid |-> FALSE, held |-> << >> ]

\* the two-tier cache holds a valid entry for url at time t
HoldsValidEntry(dir, mem, url, t) ==
    \/ \E i \in 1..Len(mem) : mem[i].url = url /\ t - mem[i].time < cache_duration
    \/ LET file == dir[GetCacheKey(url)]
           data == JsonLoad(file.text)
       IN /\ file.exists /\ data.ok /\ FromIsoFormat(data.timestamp).ok
          /\ t - FromIsoFormat(data.timestamp).time < cache_duration

\* the listing of that entry, the memory tier's first
HeldListing(dir, mem, url, t) ==
    IF \E i \in 1..Len(mem) : mem[i].url = url /\ t - mem[i].time < cache_duration
    THEN SelectSeq(mem, LAMBDA e : e.url = url)[1].content
    ELSE JsonLoad(dir[GetCacheKey(url)].text).content

\* DirectoryLister(url, config, use_cache, page_size).start() of the cached
\* lister; listing_depth is the configuration's value
ListerStart(url, use_cache, page_size, configured, listing_depth) ==
    /\ lister.pc \in { "idle", "done" }
    /\ cache_obs.crawls > 0
    /\ lister' = [ NoLister EXCEPT !.pc = "run", !.url = url, !.use_cache = use_cache,
                                   !.page_size = IF page_size # 0 THEN page_size
                                                 ELSE configured,
                                   !.listing_depth = listing_depth ]
    /\ cache_obs' = [ cache_obs EXCEPT !.crawls = @ - 1 ]
    /\ UNCHANGED << manager_vars, now, cache_dir, memory_cache >>

\* DirectoryLister(url, config).start() of the plain lister, which has no
\* cache and no page size; its run() goes straight to the scheme dispatch
PlainListerStart(url, listing_depth) ==
    /\ lister.pc \in { "idle", "done" }
    /\ cache_obs.crawls > 0
    /\ lister' = [ NoLister EXCEPT !.pc = "fetch", !.url = url, !.paginated = FALSE,
                                   !.listing_depth = listing_depth ]
    /\ cache_obs' = [ cache_obs EXCEPT !.crawls = @ - 1 ]
    /\ UNCHANGED << manager_vars, now, cache_dir, memory_cache >>

\* the test of the replay loop, line 91
PastPageNoCap(page_size, i) == FALSE

PastPage(page_size, i) == page_size # 0 /\ i >= page_size

\* run(), lines 46-65: the look-up in the two tiers
ListerRun ==
    /\ lister.pc = "run"
    /\ LET url == lister.url
           mem == MemoryCacheGet(memory_cache, url, now, cache_duration)
           dsk == DirectoryCacheGet(cache_dir, url, now, cache_duration)
           removed == cache_dir[GetCacheKey(url)].exists /\ ~dsk.dir[GetCacheKey(url)].exists
           seen == [ lister EXCEPT
                       !.held_valid = HoldsValidEntry(cache_dir, memory_cache, url, now),
                       !.held = IF HoldsValidEntry(cache_dir, memory_cache, url, now)
                                THEN HeldListing(cache_dir, memory_cache, url, now)
                                ELSE << >> ]
       IN IF ~lister.use_cache
          THEN /\ lister' = [ seen EXCEPT !.pc = "fetch", !.status = "Fetching from server" ]
               /\ UNCHANGED << cache_dir, memory_cache, cache_obs >>
          ELSE IF Truthy(mem.result)
          THEN /\ lister' = [ seen EXCEPT !.pc = "replay", !.status = "Using memory cache",
                                          !.items = mem.result.content ]
               /\ memory_cache' = mem.mem
               /\ UNCHANGED << cache_dir, cache_obs >>
          ELSE IF Truthy(dsk.result)
          THEN /\ lister' = [ seen EXCEPT !.pc = "replay", !.status = "Using disk cache",
                                          !.items = dsk.result.content ]
               /\ memory_cache' = MemoryCacheSet(mem.mem, url, dsk.result.content, now,
                                                 MemoryCacheSize)
               /\ cache_dir' = dsk.dir
               /\ UNCHANGED cache_obs
          ELSE /\ lister' = [ seen EXCEPT !.pc = "fetch", !.status = "Fetching from server" ]
               /\ memory_cache' = mem.mem
               /\ cache_dir' = dsk.dir
               /\ cache_obs' = [ cache_obs EXCEPT !.purged[url] = @ \/ removed,
                                                  !.intact[url] = @ /\ ~removed ]
    /\ UNCHANGED << manager_vars, now >>

\* _emit_cached_items: the tests at the head of the loop (lines 88-92);
\* after the loop run() returns and its finally clause emits finished
ListerReplay ==
    /\ lister.pc = "replay"
    /\ LET i == Len(lister.emitted)
       IN IF i >= Len(lister.items) \/ lister.cancelled \/ PastPage(lister.page_size, i)
          THEN lister' = [ lister EXCEPT !.pc = "done", !.finished = @ + 1 ]
          ELSE lister' = [ lister EXCEPT !.pc = "replay_emit" ]
    /\ UNCHANGED << manager_vars, now, cache_dir, memory_cache, cache_obs >>

\* _emit_cached_items: item_found.emit(item), line 93
ListerReplayEmit ==
    /\ lister.pc = "replay_emit"
    /\ lister' = [ lister EXCEPT
                     !.pc = "replay",
                     !.emitted = Append(@, lister.items[Len(lister.emitted) + 1]),
                     !.late_items = IF lister.cancelled THEN @ + 1 ELSE @ ]
    /\ UNCHANGED << manager_vars, now, cache_dir, memory_cache, cache_obs >>

\* a return that never leaves the call
ReturnSpins(l) == l

\* a return that unwinds every frame
ReturnAborts(l) == [ l EXCEPT !.stack = << >>, !.pc = "store" ]

\* _list_* returns: to the loop of the calling frame, or to run()
Return(l) ==
    IF Len(l.stack) <= 1
    THEN [ l EXCEPT !.stack = << >>, !.pc = "store" ]
    ELSE [ l EXCEPT !.stack = SubSeq(@, 1, Len(@) - 1), !.pc = "list" ]

\* tests at the top of _list_* that leave the cancel flag out
DepthTestNoCancel(l, current_depth) == current_depth >= l.listing_depth

\* the tests at the top of _list_* (lines 98, 147; plain lister 45-46, 70-71)
DepthTest(l, current_depth) == l.cancelled \/ current_depth >= l.listing_depth

\* run(), lines 68-73 (plain lister 32-37), and the top of _list_*: the
\* scheme dispatch for the root, then the tests of the cancel flag and of
\* the depth
ListerEnter ==
    /\ lister.pc \in { "fetch", "enter" }
    /\ IF lister.pc = "fetch" /\ ListingScheme(lister.url) \notin { "ftp", "http" }
       THEN lister' = [ lister EXCEPT !.pc = "done", !.errors = @ + 1, !.finished = @ + 1 ]
       ELSE LET l == IF lister.pc = "fetch"
                     THEN [ lister EXCEPT !.stack = << [ dir |-> TopDir, depth |-> 0, i |-> 0 ] >> ]
                     ELSE lister
                top == l.stack[Len(l.stack)]
            IN IF DepthTest(l, top.depth)
               THEN lister' = Return(l)
               ELSE lister' = [ l EXCEPT !.pc = "request" ]
    /\ UNCHANGED << manager_vars, now, cache_dir, memory_cache, cache_obs >>

\* the request of _list_* (requests.get / FTP login, cwd, dir); fails says
\* whether it raises, which the except clause of the same call reports
\* before the call returns
ListerRequest(fails) ==
    /\ lister.pc = "request"
    /\ LET top == lister.stack[Len(lister.stack)]
           asked == [ lister EXCEPT !.requests = @ + 1,
                                    !.late_requests = IF lister.cancelled THEN @ + 1 ELSE @ ]
       IN IF fails
          THEN /\ cache_obs.faults > 0
               /\ cache_obs' = [ cache_obs EXCEPT !.faults = @ - 1 ]
               /\ lister' = Return([ asked EXCEPT !.errors = @ + 1,
                                                  !.failed = @ \cup { top.dir } ])
          ELSE /\ lister' = [ asked EXCEPT !.pc = "list",
                                           !.listed = @ \cup { top.dir } ]
               /\ UNCHANGED cache_obs
    /\ UNCHANGED << manager_vars, now, cache_dir, memory_cache >>

\* the tests at the head of the loop over the lines or anchors of the
\* listing (lines 109-112, 158-161; plain lister 54, 81); with a page size
\* there is one frame, whose items are lister.items
ListerListItem ==
    /\ lister.pc = "list"
    /\ LET top == lister.stack[Len(lister.stack)]
       IN IF \/ top.i >= Len(DirListing(lister.url, top.dir))
             \/ lister.cancelled
             \/ lister.paginated /\ PastPage(lister.page_size, Len(lister.items))
          THEN lister' = Return(lister)
          ELSE lister' = [ lister EXCEPT !.pc = "emit" ]
    /\ UNCHANGED << manager_vars, now, cache_dir, memory_cache, cache_obs >>

\* the test before the recursive call: the plain lister descends into every
\* directory (lines 64, 108), the paginated one only without a page size
\* (lines 134, 196); every entry of the tree lies under the base url
Recurses(l, item) ==
    /\ item.type = "Directory"
    /\ ~l.paginated \/ l.page_size = 0

\* the body of the loop: the entry is appended and emitted (lines 130-131,
\* 192-193; plain lister 60-63, 102-105) and a directory is descended into
ListerEmit ==
    /\ lister.pc = "emit"
    /\ LET n == Len(lister.stack)
           top == lister.stack[n]
           item == DirListing(lister.url, top.dir)[top.i + 1]
           l == [ lister EXCEPT !.items = Append(@, item),
                                !.emitted = Append(@, item),
                                !.late_items = IF lister.cancelled THEN @ + 1 ELSE @,
                                !.stack[n].i = @ + 1 ]
       IN IF Recurses(lister, item)
          THEN lister' = [ l EXCEPT !.stack = Append(@, [ dir |-> item.name, depth |-> top.depth + 1,
                                                          i |-> 0 ]),
                                    !.pc = "enter" ]
          ELSE lister' = [ l EXCEPT !.pc = "list" ]
    /\ UNCHANGED << manager_vars, now, cache_dir, memory_cache, cache_obs >>

\* run(), lines 75-84: the listing is cached and finished is emitted; the
\* plain lister only emits finished (lines 41-42)
ListerStore ==
    /\ lister.pc = "store"
    /\ lister' = [ lister EXCEPT !.pc = "done", !.finished = @ + 1 ]
    /\ IF lister.use_cache /\ lister.items # << >>
       THEN /\ cache_dir' = DirectoryCacheSet(cache_dir, lister.url, lister.items, now)
            /\ memory_cache' = MemoryCacheSet(memory_cache, lister.url, lister.items, now,
                                              MemoryCacheSize)
            /\ cache_obs' = [ cache_obs EXCEPT
                                !.last = [ op |-> "set", url |-> lister.url,
                                           at |-> now, again |-> FALSE ],
                                !.purged[lister.url] = FALSE,
                                !.intact[lister.url] = TRUE,
                                !.set_items[lister.url] = lister.items,
                                !.set_at[lister.url] = now ]
       ELSE UNCHANGED << cache_dir, memory_cache, cache_obs >>
    /\ UNCHANGED << manager_vars, now >>

\* DirectoryLister.cancel
ListerCancel ==
    /\ lister.pc \notin { "idle", "done" }
    /\ ~lister.cancelled
    /\ lister' = [ lister EXCEPT !.cancelled = TRUE ]
    /\ UNCHANGED << manager_vars, now, cache_dir, memory_cache, cache_obs >>

\* the caller's record before any call
NothingSeen(ops, crawls, faults) ==
    [ ops |-> ops, crawls |-> crawls, faults |-> faults,
      last |-> [ op |-> "", url |-> "", at |-> 0, again |-> FALSE ], result |-> None,
      purged |-> [ url \in ListUrls |-> FALSE ],
      intact |-> [ url \in ListUrls |-> FALSE ],
      set_items |-> [ url \in ListUrls |-> << >> ],
      set_at |-> [ url \in ListUrls |-> 0 ],
      used |-> [ url \in ListUrls |-> 0 ],
      inserted |-> [ url \in ListUrls |-> 0 ] ]

MaxCacheFaults == 1     \* damaged files and failed listing requests per behaviour

\* a scheduler that is not used, an empty cache directory, no lister
CacheIdle ==
    /\ now = 0
    /\ cache_dir = [ f \in CacheFiles |-> NoFile ]
    /\ memory_cache = << >>
    /\ lister = NoLister
    /\ cache_obs = NothingSeen(0, 0, 0)

InitWith(maxima, attempts, disks, b) ==
    InitManager(maxima, attempts, disks, b) /\ CacheIdle

CacheUrls == { LIST_HTTP, LIST_FTP }

\* page_size of the configuration: its default, and 0 for no paging
ConfiguredPageSizes == { 0, 1000 }

\* SpecCache: callers of the cache while time passes and files get damaged
InitCache ==
    /\ InitManager({1}, {1}, { << >> }, [ enqueues |-> 0, ops |-> 0, faults |-> 0 ])
    /\ now = 0
    /\ cache_dir = [ f \in CacheFiles |-> NoFile ]
    /\ memory_cache = << >>
    /\ lister = NoLister
    /\ cache_obs = NothingSeen(MaxCacheOps, 0, MaxCacheFaults)

NextCache ==
    \/ \E url \in CacheUrls : CacheGet(url)
    \/ \E url \in CacheUrls : \E content \in Listings : CacheSet(url, content)
    \/ ClearExpired
    \/ ClearAll
    \/ \E url \in CacheUrls : CorruptFile(url)
    \/ Tick

SpecCache == InitCache /\ [][NextCache]_vars

\* SpecLister: crawls, one after the other, of directories that a caller or
\* an earlier crawl may have cached, while time passes
InitLister ==
    /\ InitManager({1}, {1}, { << >> }, [ enqueues |-> 0, ops |-> 0, faults |-> 0 ])
    /\ now = 0
    /\ cache_dir = [ f \in CacheFiles |-> NoFile ]
    /\ memory_cache = << >>
    /\ lister = NoLister
    /\ cache_obs = NothingSeen(1, MaxCrawls, MaxCacheFaults)

NextLister ==
    \/ \E content \in Listings : CacheSet(LIST_HTTP, content)
    \/ Tick
    \/ \E url \in ListUrls \ TreeUrls : \E use_cache \in BOOLEAN : \E page_size \in { 0, 2 } :
           \E configured \in ConfiguredPageSizes :
               ListerStart(url, use_cache, page_size, configured, DefaultListingDepth)
    \/ ListerRun
    \/ ListerReplay
    \/ ListerReplayEmit
    \/ ListerEnter
    \/ \E fails \in BOOLEAN : ListerRequest(fails)
    \/ ListerListItem
    \/ ListerEmit
    \/ ListerStore
    \/ ListerCancel

SpecLister == InitLister /\ [][NextLister]_vars

\* SpecMemory: callers of the memory tier while time passes.  The caller's
\* record numbers the calls (MaxMemoryOps - ops + 1): used[url] is the number of the last call that
\* hit or set the url's entry, inserted[url] that of the set that put it in.

\* self.memory_cache.get(url)
MemoryGet(url) ==
    /\ cache_obs.ops > 0
    /\ LET got == MemoryCacheGet(memory_cache, url, now, cache_duration)
       IN /\ memory_cache' = got.mem
          /\ cache_obs' = [ Noted(cache_obs, "mget", url, got.result) EXCEPT
                              !.ops = @ - 1,
                              !.used[url] = IF got.result.hit THEN (MaxMemoryOps - cache_obs.ops + 1) ELSE @ ]
    /\ UNCHANGED << manager_vars, now, cache_dir, lister >>

\* self.memory_cache.set(url, items)
MemorySet(url, content) ==
    /\ cache_obs.ops > 0
    /\ memory_cache' = MemoryCacheSet(memory_cache, url, content, now, MemoryCacheSize)
    /\ cache_obs' = [ Noted(cache_obs, "mset", url, None) EXCEPT
                        !.ops = @ - 1,
                        !.used[url] = (MaxMemoryOps - cache_obs.ops + 1),
                        !.inserted[url] =
                            IF \E i \in 1..Len(memory_cache) : memory_cache[i].url = url
                            THEN @ ELSE (MaxMemoryOps - cache_obs.ops + 1) ]
    /\ UNCHANGED << manager_vars, now, cache_dir, lister >>

InitMemory ==
    /\ InitManager({1}, {1}, { << >> }, [ enqueues |-> 0, ops |-> 0, faults |-> 0 ])
    /\ now = 0
    /\ cache_dir = [ f \in CacheFiles |-> NoFile ]
    /\ memory_cache = << >>
    /\ lister = NoLister
    /\ cache_obs = NothingSeen(MaxMemoryOps, 0, 0)

NextMemory ==
    \/ \E url \in ListUrls \ { TREE_FTP } : MemoryGet(url)
    \/ \E url \in ListUrls \ { TREE_FTP } : MemorySet(url, << Dir("b"), File("a.txt") >>)
    \/ Tick

SpecMemory == InitMemory /\ [][NextMemory]_vars

\* SpecCrawl: crawls of a directory tree by the plain and by the cached
\* lister, under every depth limit that cuts the tree or does not, with a
\* refused request and a cancel at any point

InitCrawl ==
    /\ InitManager({1}, {1}, { << >> }, [ enqueues |-> 0, ops |-> 0, faults |-> 0 ])
    /\ now = 0
    /\ cache_dir = [ f \in CacheFiles |-> NoFile ]
    /\ memory_cache = << >>
    /\ lister = NoLister
    /\ cache_obs = NothingSeen(0, MaxCrawls, MaxCacheFaults)

NextCrawl ==
    \/ \E url \in TreeUrls : \E listing_depth \in 1..DefaultListingDepth :
           PlainListerStart(url, listing_depth)
    \/ \E url \in TreeUrls : \E use_cache \in BOOLEAN :
           \E configured \in ConfiguredPageSizes : \E listing_depth \in 1..DefaultListingDepth :
               ListerStart(url, use_cache, 0, configured, listing_depth)
    \/ ListerRun
    \/ ListerReplay
    \/ ListerReplayEmit
    \/ ListerEnter
    \/ \E fails \in BOOLEAN : ListerRequest(fails)
    \/ ListerListItem
    \/ ListerEmit
    \/ ListerStore
    \/ ListerCancel

SpecCrawl == InitCrawl /\ [][NextCrawl]_vars

\* SpecTerminate: crawls of the tree and of the directory that links to
\* itself (the latter without the cache) under the default depth limit; the
\* crawl's thread keeps running and every request is answered or refused
\* (request_timeout)
CrawlThread ==
    \/ ListerRun
    \/ ListerReplay
    \/ ListerReplayEmit
    \/ ListerEnter
    \/ \E fails \in BOOLEAN : ListerRequest(fails)
    \/ ListerListItem
    \/ ListerEmit
    \/ ListerStore

NextTerminate ==
    \/ \E url \in { TREE_FTP, LOOP_HTTP } : PlainListerStart(url, DefaultListingDepth)
    \/ \E use_cache \in BOOLEAN : \E configured \in ConfiguredPageSizes :
           ListerStart(TREE_HTTP, use_cache, 0, configured, DefaultListingDepth)
    \/ \E configured \in ConfiguredPageSizes :
           ListerStart(LOOP_HTTP, FALSE, 0, configured, DefaultListingDepth)
    \/ CrawlThread
    \/ ListerCancel

SpecTerminate == InitCrawl /\ [][NextTerminate]_vars /\ WF_vars(CrawlThread)

\* Scheduler scenarios: short files, up to three tasks on two urls.
SchedBatches ==
    { << <<URL_FTP, REL_FLAT>> >>,
      << <<URL_FTP, REL_DEEP>> >>,
      << <<URL_FTP, REL_FLAT>>, <<URL_EMPTY, REL_OTHER>> >> }

\* Spec: batches that arrive while earlier ones are sized, queued or running,
\* with one user request and one network fault.
Init ==
    InitWith(1..MaxConcurrent, {1}, { << >> },
             [ enqueues |-> MaxEnqueues, ops |-> MaxUserOps, faults |-> MaxFaults ])

Next ==
    \/ \E tuples \in SchedBatches : StartDownloads(tuples, ROOT_A)
    \/ Handlers
    \/ UserRequests
    \/ WorkerSteps
    \/ NetworkFaults

Spec == Init /\ [][Next]_vars

\* SpecEnqueue: batches bound to different destination roots, no user request.
InitEnqueue ==
    InitWith(1..MaxConcurrent, {1}, { << >> },
             [ enqueues |-> MaxEnqueues, ops |-> 0, faults |-> MaxFaults ])

NextEnqueue ==
    \/ \E tuples \in SchedBatches, root \in ROOTS : StartDownloads(tuples, root)
    \/ Handlers
    \/ WorkerSteps
    \/ NetworkFaults

SpecEnqueue == InitEnqueue /\ [][NextEnqueue]_vars

\* SpecRequests: one batch and a series of user requests.
InitRequests ==
    InitWith(1..MaxConcurrent, {1}, { << >> },
             [ enqueues |-> 1, ops |-> MaxRequests, faults |-> MaxFaults ])

SpecRequests == InitRequests /\ [][Next]_vars

\* SpecFileOps: pause_file, resume_file and cancel_file called for any url,
\* with or without a worker registered for it.
InitFileOps ==
    InitWith(1..MaxConcurrent, {1}, { << >> },
             [ enqueues |-> MaxEnqueues, ops |-> MaxRequests, faults |-> MaxFaults ])

NextFileOps ==
    \/ \E tuples \in SchedBatches : StartDownloads(tuples, ROOT_A)
    \/ Handlers
    \/ \E url \in URLS : PauseFile(url)
    \/ \E url \in URLS : ResumeFile(url)
    \/ \E url \in URLS : CancelFile(url)
    \/ WorkerSteps
    \/ NetworkFaults

SpecFileOps == InitFileOps /\ [][NextFileOps]_vars

\* SpecWorker: one task at a time on one file, which may already be partly
\* on disk; the worker is paused, resumed, canceled and retried, and every
\* one of its attempts may fail.  One batch names a url whose scheme the
\* worker does not support.
InitWorker ==
    InitWith({1}, {MaxAttempts}, InitialDisks,
             [ enqueues |-> 1, ops |-> MaxRequests, faults |-> MaxAttempts ])

NextWorker ==
    \/ \E url \in { URL_HTTP, URL_FTP, URL_OTHER } :
           StartDownloads(<< << url, REL_FLAT >> >>, ROOT_A)
    \/ Handlers
    \/ UserRequests
    \/ WorkerSteps
    \/ NetworkFaults

SpecWorker == InitWorker /\ [][NextWorker]_vars

\* SpecProgress: the task of SpecWorker on a file whose length the server
\* does not declare
NextProgress ==
    \/ StartDownloads(<< << URL_STREAM, REL_FLAT >> >>, ROOT_A)
    \/ Handlers
    \/ UserRequests
    \/ WorkerSteps
    \/ NetworkFaults

SpecProgress == InitWorker /\ [][NextProgress]_vars

\* SpecComplete: batches on an empty disk with no request from the user and
\* no network fault; the event loop delivers every queued signal and every
\* thread keeps running.  The batches are a file and an empty file listed
\* together, and the first file again as a later crawl of its parent folder
\* lists it.
InitComplete ==
    InitWith(1..MaxConcurrent, {1}, {<< >>},
             [ enqueues |-> MaxEnqueues, ops |-> 0, faults |-> 0 ])

EventLoop ==
    \/ \E k \in 1..Len(calcs) : SizeCalcFinished(k, {})
    \/ OnWorkerFinished
    \/ OnFileProgressUpdate

NextComplete ==
    \/ \E tuples \in { << <<URL_HTTP, REL_FLAT>>, <<URL_EMPTY, REL_OTHER>> >>,
                        << <<URL_HTTP, REL_DEEP>> >> } :
           StartDownloads(tuples, ROOT_A)
    \/ EventLoop
    \/ WorkerSteps

\* the event loop has a signal to deliver: EventLoop is enabled
EventPending ==
    \/ calcs # << >>
    \/ events # << >> /\ Head(events).type \in {"finished", "progress"}

\* weak fairness of EventLoop, with its enabling condition written out, and
\* of the worker threads
SpecComplete ==
    /\ InitComplete /\ [][NextComplete]_vars
    /\ ([]<>(~EventPending) \/ []<><<EventLoop>>_vars)
    /\ WF_vars(WorkerSteps)

\* SpecRetry: batches whose transfers fail or are canceled, and
\* retry_download called for any url, with or without a task to retry.
InitRetry ==
    InitWith(1..MaxConcurrent, {1}, { << >> },
             [ enqueues |-> MaxEnqueues, ops |-> MaxRequests, faults |-> MaxFaults ])

NextRetry ==
    \/ \E tuples \in SchedBatches : StartDownloads(tuples, ROOT_A)
    \/ Handlers
    \/ WorkerSteps
    \/ NetworkFaults
    \/ \E url \in ActiveUrls(active_workers) : CancelFile(url)
    \/ (ActiveUrls(active_workers) # {} \/ download_queue # << >>) /\ CancelAll
    \/ \E url \in URLS : RetryDownload(url)

SpecRetry == InitRetry /\ [][NextRetry]_vars

(***************************************************************************)
(* Properties of the scheduler.                                            *)
(***************************************************************************)
C1_WithStatus(st) == { i \in 1..Len(downloads) : downloads[i].status = st }

\* C1: the number of tasks whose status is Downloading never exceeds
\* max_concurrent_downloads, whatever the interleaving of enqueues,
\* dispatches, user requests and worker events.
C1_ConcurrencyCap ==
    Cardinality(C1_WithStatus("Downloading")) <= config.max_concurrent_downloads

\* C1 witness: the pool is full, every slot is a Downloading task, and a
\* further task waits in the queue.
C1_Witness ==
    /\ Cardinality(C1_WithStatus("Downloading")) = config.max_concurrent_downloads
    /\ download_queue # << >>
    /\ Len(downloads) > config.max_concurrent_downloads

\* C2: the task list never holds two tasks with the same (url, rel_path),
\* and a batch that names a pair already in the list adds neither a task
\* nor a queue entry for it: without retries, queue entries ever appended
\* and tasks are equal in number.
C2_OneTaskPerPair ==
    /\ \A i, j \in 1..Len(downloads) :
          (downloads[i].url = downloads[j].url
             /\ downloads[i].rel_path = downloads[j].rel_path) => i = j
    /\ obs.appended = Len(downloads)

\* C2 witness: a sized batch named a pair that was already a task (the
\* test on line 149 failed for it), and that task is still active.
C2_Witness ==
    /\ obs.skipped > 0
    /\ Len(downloads) = 1
    /\ downloads[1].status \in ActiveStatuses

\* C3: tasks are dispatched in the order in which they were appended to
\* the queue (workers are created in increasing order of the queue entry
\* they serve), and every entry dispatch removes from the queue is started.
C3_StartedInQueueOrder ==
    \A i, j \in 1..Len(workers) : i < j => workers[i].seq < workers[j].seq

\* C3, second part: every queue entry dispatch has popped was started
C3_EveryPopStarts == obs.pops = Len(workers)

\* C3: dispatch is first-in first-out and removes no entry from the queue
\* without starting it.
C3_FifoDispatch == C3_StartedInQueueOrder /\ C3_EveryPopStarts

\* C4: the file path of every task lies under the destination root that was
\* passed to the start_downloads call which created the task, and so does
\* the folder of every worker started for it.
C4_DestinationOfOwnBatch ==
    /\ \A i \in 1..Len(downloads) :
          downloads[i].file_path = PathJoin(obs.roots[i], downloads[i].rel_path)
    /\ \A k \in 1..Len(workers) : \A i \in 1..Len(downloads) :
          (downloads[i].url = workers[k].url /\ downloads[i].rel_path = workers[k].rel_path)
             => SubSeq(workers[k].base_folder, 1, Len(obs.roots[i])) = obs.roots[i]

\* C5: a cancel_all step leaves the queue empty and no task Queued or
\* Downloading; tasks that were Queued, Downloading or Paused are Canceled,
\* tasks that were Completed or Failed are as before.
C5_AfterCancelAll ==
    /\ download_queue' = << >>
    /\ \A i \in 1..Len(downloads) :
          /\ downloads'[i].status \notin {"Queued", "Downloading"}
          /\ downloads[i].status \in ActiveStatuses => downloads'[i].status = "Canceled"
          /\ downloads[i].status \in {"Completed", "Failed"} => downloads'[i] = downloads[i]

\* C5: every cancel_all step settles the tasks as C5_AfterCancelAll says.
C5_CancelAllSettles == [][ CancelAll => C5_AfterCancelAll ]_vars

\* C6: a task never becomes Failed through the error of a worker that had
\* been canceled: a canceled transfer surfaces no error, on the HTTP and on
\* the FTP path, in whichever attempt the cancel arrives.
C6_CancelIsNotFailure == ~obs.failed_by_cancel

\* a worker whose transfer routine returned at the end of the stream
C10_TransferComplete(w) ==
    /\ w.pc = "done"
    /\ w.first_start >= 0
    /\ w.pos >= RemoteSize(w.url)
    /\ w.attempt < config.retry_attempts

C9_PauseResumeTransparent ==
    \A i \in 1..Len(workers) :
        LET w == workers[i]
        IN w.running =>
              /\ w.written = Bytes(w.start, w.start + Len(w.written))
              /\ w.pc \in {"iter", "wait", "write"} =>
                     w.pos = w.start + Len(w.written) + Len(w.chunk)
              /\ C10_TransferComplete(w) =>
                     w.start + Len(w.written) = RemoteSize(w.url)

\* a worker that blocked in a pause and went on to write the whole content in
\* more than one chunk
C9_Witness ==
    \E i \in 1..Len(workers) :
        /\ workers[i].running
        /\ workers[i].was_paused
        /\ C10_TransferComplete(workers[i])
        /\ workers[i].start = 0
        /\ Len(workers[i].written) > ChunkBytes

RECURSIVE C10_SumOfSizes(_)
C10_SumOfSizes(list) ==
    IF list = << >> THEN 0 ELSE Head(list).size + C10_SumOfSizes(Tail(list))

\* C10: when no transfer fails and nothing is paused or canceled, the
\* scheduler settles: from some moment on every enqueued task, an empty file
\* included, is Completed with progress 100 and the counter of downloaded
\* bytes equals the sum of the sizes of the tasks.
C10_AllTasksComplete ==
    <>[]( /\ \A i \in 1..Len(downloads) : /\ downloads[i].status = "Completed"
                                          /\ downloads[i].progress = 100
          /\ total_bytes_downloaded = C10_SumOfSizes(downloads) )

\* the three conditions of the all-finished signal
C11_AllFinishedCondition ==
    /\ download_queue = << >>
    /\ NumActive(active_workers) = 0
    /\ total_bytes_downloaded >= total_bytes_to_download - 1

\* a batch has settled: the conditions hold and no size calculation runs
C11_BatchSettled == C11_AllFinishedCondition /\ calcs = << >>

\* C11: all_finished fires only when queue, pool and byte counter say the
\* batch is finished, and exactly once each time a batch settles.
C11_AllFinishedOncePerSettling ==
    [][ /\ obs'.all_finished # obs.all_finished =>
              /\ obs'.all_finished = obs.all_finished + 1
              /\ C11_AllFinishedCondition'
        /\ (~C11_BatchSettled /\ C11_BatchSettled') => obs'.all_finished = obs.all_finished + 1
        /\ (C11_BatchSettled /\ C11_BatchSettled') => obs'.all_finished = obs.all_finished ]_vars

\* C12: a worker begins at most retry_attempts attempts; it has emitted one
\* "Retrying" notification for each failed attempt but the last, and the
\* terminal error only when the last attempt has failed, after which it is
\* done; an attempt that follows a failed one starts at the offset the
\* earlier attempts have written up to.
C12_BoundedAttempts ==
    \A i \in 1..Len(workers) :
        LET w == workers[i]
            n == config.retry_attempts
            errors == Cardinality({ k \in 1..Len(events) :
                         events[k].type = "error" /\ events[k].url = w.url })
        IN /\ w.started <= n
           /\ w.attempt <= w.started
           /\ w.retrying = Min(w.attempt, n - 1)
           /\ w.attempt >= n => w.pc = "done"
           /\ w.attempt < n => errors = 0
           /\ w.pc \in {"iter", "wait", "write"} =>
                  w.start = w.first_start + w.bytes_downloaded_this_session - Len(w.written)

\* a worker that wrote a chunk, failed, resumed behind that chunk in a
\* second attempt, failed again and gave up
C12_Witness ==
    \E i \in 1..Len(workers) :
        /\ workers[i].attempt = config.retry_attempts
        /\ workers[i].started = config.retry_attempts
        /\ workers[i].retrying >= 1
        /\ workers[i].first_start >= 0
        /\ workers[i].start > workers[i].first_start
        /\ workers[i].pc = "done"
        /\ \E k \in 1..Len(events) : events[k].type = "error" /\ events[k].url = workers[i].url

\* C13: a worker whose url has an unsupported scheme begins one attempt only
\* and emits no "Retrying" notification.
C13_UnsupportedSchemeFailsAtOnce ==
    \A i \in 1..Len(workers) :
        SchemeOf(workers[i].url) \notin {"http", "ftp"} =>
            /\ workers[i].started <= 1
            /\ workers[i].retrying = 0

\* what C14 says of one retry_download(url) step
C14_RetryEffect(url) ==
    LET Retriable(d) == d.url = url /\ d.status \in {"Failed", "Canceled"}
        i == FirstIndex(downloads, Retriable)
    IN IF i = 0
       THEN UNCHANGED << downloads, download_queue, active_workers, workers,
                         file_sizes, total_bytes_to_download, total_bytes_downloaded,
                         base_folder, calcs, events, disk, obs >>
       ELSE /\ obs'.appended = obs.appended + 1
            /\ downloads'[i].progress = 0
            /\ \/ /\ downloads'[i].status = "Queued"
                  /\ download_queue' # << >>
                  /\ download_queue'[Len(download_queue')] = << url, downloads[i].rel_path >>
               \/ /\ downloads'[i].status = "Downloading"
                  /\ active_workers'[url] > Len(workers)
                  /\ workers'[active_workers'[url]].rel_path = downloads[i].rel_path
            /\ HasFreeSlot(Mgr) => Len(workers') > Len(workers)
            /\ \A j \in 1..Len(downloads) :
                  (j # i /\ downloads[j].status # "Queued") => downloads'[j] = downloads[j]

\* C14: a retry_download(url) step acts on the first Failed or Canceled task
\* of the url: progress 0, status Queued, one entry appended at the tail of
\* the queue, then dispatch; when the url has no such task the step changes
\* nothing.
C14_RetryOnlyFailedOrCanceled ==
    [][ \A url \in URLS : RetryDownload(url) => C14_RetryEffect(url) ]_vars

\* a worker that has its file open and still has a chunk to write: it holds
\* a chunk past the cancel test, or it is running with content left
C15_WillWrite(w) ==
    \/ w.pc = "write"
    \/ /\ w.pc \in {"iter", "wait"}
       /\ w.running
       /\ (w.chunk # << >> \/ w.pos < RemoteSize(w.url))

\* C15: no two workers that still write have the same local file.
C15_OneWriterPerFile ==
    \A i, j \in 1..Len(workers) :
        (i # j /\ C15_WillWrite(workers[i]) /\ C15_WillWrite(workers[j]))
            => LocalFilename(workers[i]) # LocalFilename(workers[j])

\* what C16 says of the step in which the size calculation k reports with
\* the urls in failed unsized
C16_AfterSizeCalc(k, failed) ==
    LET calc == calcs[k]
        result == SizeCalculatorRun(calc.urls, failed)
        sized == calc.urls \ failed
        added == { i \in 1..Len(downloads') : i > Len(downloads) }
        Wanted(t) == t[1] \in sized /\ ~IsKnownPair(downloads, t[1], t[2])
    IN /\ DOMAIN result.file_sizes_map = sized
       /\ result.total_size = SumOver(sized, [ u \in URLS |-> RemoteSize(u) ])
       /\ \A u \in failed : file_sizes'[u] = file_sizes[u]
       /\ \A u \in sized : file_sizes'[u] >= 0
       /\ Len(downloads') >= Len(downloads)
       /\ \A i \in 1..Len(downloads) : /\ downloads'[i].url = downloads[i].url
                                       /\ downloads'[i].rel_path = downloads[i].rel_path
       /\ \A i \in added : downloads'[i].url \in sized
       /\ \A n \in 1..Len(calc.tuples) :
              Wanted(calc.tuples[n]) =>
                  \E i \in added : /\ downloads'[i].url = calc.tuples[n][1]
                                   /\ downloads'[i].rel_path = calc.tuples[n][2]
       /\ obs'.appended = obs.appended + Cardinality(added)

\* C16: when a size calculation reports, the urls it could not size are in
\* neither its map nor its total and get no size, no task and no queue
\* entry, while every other url of the batch is sized and every new pair
\* among them becomes a task with one queue entry.
C16_SizeFailureSkipsOnlyThatUrl ==
    [][ \A k \in 1..Len(calcs) : \A failed \in SUBSET calcs[k].urls :
           SizeCalcFinished(k, failed) => C16_AfterSizeCalc(k, failed) ]_vars

\* one url of a batch of two could not be sized and the other is a task
C16_Witness ==
    /\ calcs = << >>
    /\ budget.enqueues = MaxEnqueues - 1
    /\ file_sizes[URL_FTP] < 0
    /\ \E i \in 1..Len(downloads) : downloads[i].url = URL_EMPTY
    /\ \A i \in 1..Len(downloads) : downloads[i].url # URL_FTP

\* the entry of url as a reader of the directory finds it
C17_Readable(url) ==
    LET file == cache_dir[GetCacheKey(url)]
    IN file.exists /\ JsonLoad(file.text).ok
                   /\ FromIsoFormat(JsonLoad(file.text).timestamp).ok

C18_Age(url) == now - FromIsoFormat(JsonLoad(cache_dir[GetCacheKey(url)].text).timestamp).time

\* C17: a get(url) that follows set(url, items) before the expiry duration
\* has elapsed (the file neither cleared nor damaged in between) returns a
\* list equal to items and leaves the stored entry and its timestamp as
\* they were.
C17_RoundTrip ==
    [][ \A url \in CacheUrls :
          ( /\ CacheGet(url)
            /\ cache_obs.intact[url]
            /\ now - cache_obs.set_at[url] < cache_duration )
          => /\ cache_obs'.result = [ hit |-> TRUE, content |-> cache_obs.set_items[url] ]
             /\ cache_dir' = cache_dir ]_vars

\* a listing of three items was read back some hours after it was stored
C17_Witness ==
    /\ cache_obs.last = [ op |-> "get", url |-> LIST_HTTP, at |-> now, again |-> FALSE ]
    /\ cache_obs.intact[LIST_HTTP]
    /\ cache_obs.result.hit
    /\ cache_obs.result.content = << File("c.txt"), File("a.txt"), Dir("b") >>
    /\ now = cache_obs.set_at[LIST_HTTP] + ClockStep

\* C18: a get(url) of a readable entry is a hit iff now - timestamp is
\* less than the expiry duration; when it is not, get returns absent and
\* deletes the file, and every get(url) from then on is a miss until the
\* next set(url).
C18_ExpiryAtRead ==
    [][ \A url \in CacheUrls :
          CacheGet(url) =>
            /\ C17_Readable(url) => ( cache_obs'.result.hit <=> C18_Age(url) < cache_duration )
            /\ C17_Readable(url) /\ C18_Age(url) >= cache_duration
                   => /\ cache_obs'.result = None
                      /\ ~cache_dir'[GetCacheKey(url)].exists
            /\ cache_obs.purged[url] => cache_obs'.result = None ]_vars

\* an entry was read at the very hour it expired, and read again
C18_Witness ==
    /\ cache_obs.last = [ op |-> "get", url |-> LIST_FTP, at |-> now, again |-> TRUE ]
    /\ cache_obs.purged[LIST_FTP]
    /\ cache_obs.result = None
    /\ ~cache_dir[GetCacheKey(LIST_FTP)].exists
    /\ cache_obs.set_at[LIST_FTP] = 0
    /\ cache_obs.set_items[LIST_FTP] # << >>
    /\ now = cache_duration

\* C19: a get(url) that finds a file it cannot read (cut short, or with a
\* timestamp that does not parse) returns absent without raising and
\* deletes the file.
C19_CorruptedEntryDeleted ==
    [][ \A url \in CacheUrls :
          ( /\ CacheGet(url)
            /\ cache_dir[GetCacheKey(url)].exists
            /\ ~C17_Readable(url) )
          => /\ cache_obs'.result = None
             /\ ~cache_dir'[GetCacheKey(url)].exists ]_vars

\* the first min(n, page_size) items of a listing of n items, all of them
\* when no page size is set
C20_FirstPage(items, page_size) ==
    SubSeq(items, 1, IF page_size # 0 THEN Min(Len(items), page_size) ELSE Len(items))

\* the listing a crawl caches is the sequence of the items it has emitted
C20_StoredAsEmitted ==
    ( lister.pc = "store" /\ lister'.pc = "done" /\ cache_dir' # cache_dir )
        => JsonLoad(cache_dir'[GetCacheKey(lister.url)].text).content = lister.emitted

\* C20 as stated: a crawl that finds a valid entry for its url makes no
\* request, emits the first min(n, page_size) cached items in their stored
\* order and then finished; the stored order is the order of emission of
\* the crawl that stored the entry.
C20_CachedCrawlReplays ==
    /\ [] ( lister.held_valid =>
              /\ lister.requests = 0
              /\ lister.finished = ( IF lister.pc = "done" THEN 1 ELSE 0 )
              /\ lister.pc = "done" =>
                     lister.emitted = C20_FirstPage(lister.held, lister.page_size) )
    /\ [][ C20_StoredAsEmitted ]_vars

\* C20, amended: the same for a crawl with use_cache set that finds a valid
\* entry of at least one item; a crawl that is cancelled emits a prefix of
\* those items and then finished.
C20_CachedReplay ==
    /\ [] ( ( lister.use_cache /\ lister.held_valid /\ lister.held # << >> ) =>
              /\ lister.requests = 0
              /\ lister.errors = 0
              /\ lister.finished = ( IF lister.pc = "done" THEN 1 ELSE 0 )
              /\ Len(lister.emitted) <= Len(C20_FirstPage(lister.held, lister.page_size))
              /\ lister.emitted = SubSeq(C20_FirstPage(lister.held, lister.page_size),
                                         1, Len(lister.emitted))
              /\ ( lister.pc = "done" /\ ~lister.cancelled ) =>
                     lister.emitted = C20_FirstPage(lister.held, lister.page_size) )
    /\ [][ C20_StoredAsEmitted ]_vars

\* the second crawl of a directory of three files, with a page size of two,
\* has replayed the first two items that the first crawl cached
C20_Witness ==
    /\ lister.pc = "done"
    /\ lister.use_cache /\ lister.held_valid
    /\ lister.held = << File("c.txt"), File("a.txt"), File("d.txt") >>
    /\ lister.page_size = 2
    /\ lister.emitted = << File("c.txt"), File("a.txt") >>
    /\ lister.requests = 0
    /\ lister.finished = 1
    /\ cache_obs.ops = 1

\* C24: the active pool holds a worker for a url exactly when a task of
\* that url is Downloading or Paused.
C24_HandleIffDownloadingOrPaused ==
    \A url \in URLS :
        active_workers[url] # 0
            <=> \E i \in 1..Len(downloads) :
                   /\ downloads[i].url = url
                   /\ downloads[i].status \in { "Downloading", "Paused" }

\* the worker that emitted the finished signal e
C25_Sender(e) == CHOOSE j \in 1..Len(workers) : workers[j].seq = e.b

\* the task a worker was started for
C25_OwnTask(w) ==
    CHOOSE i \in 1..Len(downloads) :
        downloads[i].url = w.url /\ downloads[i].rel_path = w.rel_path

\* what C25 says of the step that handles the finished signal of worker j
C25_Effect(j) ==
    LET w == workers[j]
    IN /\ total_bytes_downloaded' =
              total_bytes_downloaded + w.bytes_downloaded_this_session
       /\ downloads'[C25_OwnTask(w)].status = "Completed"
       /\ downloads'[C25_OwnTask(w)].progress = 100
       /\ active_workers'[w.url] # j
       /\ \/ download_queue' = << >>
          \/ NumActive(active_workers') >= config.max_concurrent_downloads

\* C25: the step that handles the finished signal of a worker whose
\* transfer ran to the end adds the worker's session bytes to the counter,
\* marks the worker's own task Completed with progress 100, takes the
\* worker out of the active pool and dispatches.
C25_CompletionStep ==
    [][ ( /\ OnWorkerFinished
          /\ C10_TransferComplete(workers[C25_Sender(Head(events))]) )
        => C25_Effect(C25_Sender(Head(events))) ]_vars

\* the worker that emitted the error signal e
C26_Sender(e) == CHOOSE j \in 1..Len(workers) : workers[j].seq = e.a

\* the step handles the error signal at the head of the event queue
C26_ErrorHandled ==
    /\ events # << >>
    /\ Head(events).type = "error"
    /\ events' = Tail(events)

\* the handler of a worker's error marks the worker's own task Failed, takes
\* the worker out of the pool and dispatches
C26_ErrorStep ==
    [][ C26_ErrorHandled =>
          LET j == C26_Sender(Head(events))
              w == workers[j]
          IN /\ downloads'[C25_OwnTask(w)].status = "Failed"
             /\ active_workers'[w.url] # j
             /\ \/ download_queue' = << >>
                \/ NumActive(active_workers') >= config.max_concurrent_downloads ]_vars

\* a task becomes Failed only in a step that handles an error signal of
\* its url
C26_FailedOnlyByError ==
    [][ \A i \in 1..Len(downloads') :
          ( /\ downloads'[i].status = "Failed"
            /\ (i > Len(downloads) \/ downloads[i].status # "Failed") )
          => C26_ErrorHandled /\ Head(events).url = downloads'[i].url ]_vars

\* a Failed task stays Failed except in a retry_download of its url
C26_StaysFailed ==
    [][ \A i \in 1..Len(downloads) :
          downloads[i].status = "Failed"
          => \/ downloads'[i].status = "Failed"
             \/ RetryDownload(downloads[i].url) ]_vars

\* C26: the handler of a worker's terminal error marks the worker's task
\* Failed, removes the worker from the active pool and dispatches; a task
\* becomes Failed only in such a step, and a Failed task stays Failed until
\* retry_download of its url.
C26_TerminalError ==
    C26_ErrorStep /\ C26_FailedOnlyByError /\ C26_StaysFailed

\* some task of url is being transferred: the url has an active worker
C27_HasActiveTask(url) ==
    \E i \in 1..Len(downloads) :
        downloads[i].url = url /\ downloads[i].status \in { "Downloading", "Paused" }

\* the task the worker registered for url was started for
C27_TaskOf(url) == C25_OwnTask(workers[active_workers[url]])

\* a request for a url with an active worker sets that worker's task to the
\* request's status
C27_Sets(url, status) ==
    (active_workers[url] # 0 /\ C27_HasActiveTask(url))
        => downloads'[C27_TaskOf(url)].status = status

\* a request for a url without an active worker changes nothing
C27_Frame(url) ==
    ~C27_HasActiveTask(url)
        => UNCHANGED << downloads, download_queue, workers, active_workers >>

\* C27: pause_file, resume_file and cancel_file set the status of the task
\* of the url's active worker to Paused, Downloading and Canceled; for a url
\* no task of which is being transferred they change no task, no queue
\* entry and no worker.
C27_FileRequests ==
    [][ \A url \in URLS :
          /\ PauseFile(url)  => C27_Sets(url, "Paused") /\ C27_Frame(url)
          /\ ResumeFile(url) => C27_Sets(url, "Downloading") /\ C27_Frame(url)
          /\ CancelFile(url) => C27_Sets(url, "Canceled") /\ C27_Frame(url) ]_vars

\* the step releases worker i from pause_cond.wait
C28_Released(i) == workers[i].pc = "wait" /\ workers'[i].pc # "wait"

\* a blocked worker is released only by a step that clears its pause flag
\* (resume() or stop()), and then holds the chunk it held, about to write it
C28_BlockedUntilResumed ==
    [][ \A i \in 1..Len(workers) :
          C28_Released(i)
          => /\ workers[i].paused /\ ~workers'[i].paused
             /\ workers'[i].pc = "write"
             /\ workers'[i].chunk = workers[i].chunk
             /\ workers'[i].written = workers[i].written ]_vars

\* a worker blocks only with its pause flag set, and a blocked worker has
\* written nothing since it blocked
C28_BlockedIsPaused ==
    \A i \in 1..Len(workers) :
        workers[i].pc = "wait" => workers[i].paused /\ workers[i].chunk # << >>

\* no chunk is written with the pause flag set (the claim as stated)
C28_NoWriteWhilePaused ==
    /\ [](\A i \in 1..Len(workers) : workers[i].paused_writes = 0)
    /\ [](C28_BlockedIsPaused)
    /\ C28_BlockedUntilResumed

\* C28 (amended): after pause() a worker writes at most one more chunk, the
\* one it had passed the pause test with, and from the next chunk on it is
\* blocked before writing until resume() or stop() clears the flag; it then
\* goes on with the chunk it was holding.
C28_PausedWritesHeldChunkOnly ==
    /\ [](\A i \in 1..Len(workers) : workers[i].paused_writes <= 1)
    /\ [](C28_BlockedIsPaused)
    /\ C28_BlockedUntilResumed

\* a worker paused while about to write has written that chunk, blocked with
\* the next one, was resumed and has written the whole file
C28_Witness ==
    \E i \in 1..Len(workers) :
        /\ workers[i].paused_writes = 1
        /\ workers[i].was_paused
        /\ ~workers[i].paused
        /\ workers[i].running
        /\ workers[i].pc = "done"
        /\ Len(workers[i].written) = RemoteSize(workers[i].url)

\* the finished signals of worker w among the queued signals evs
C29_Finished(w, evs) ==
    Cardinality({ k \in 1..Len(evs) : evs[k].type = "finished" /\ evs[k].b = w.seq })

\* what a step may do to a worker that stop() has been called on: it stays
\* stopped, begins no attempt, emits no finished signal, and writes only
\* the chunk it holds
C29_AfterStop ==
    [][ \A i \in 1..Len(workers) :
          ~workers[i].running
          => /\ ~workers'[i].running
             /\ workers'[i].started = workers[i].started
             /\ C29_Finished(workers[i], events') <= C29_Finished(workers[i], events)
             /\ workers'[i].written # workers[i].written
                   => /\ workers[i].pc = "write"
                      /\ workers'[i].written = workers[i].written \o workers[i].chunk
                      /\ workers'[i].pc = "iter" ]_vars

C21_TreeDirs == { TopDir, "sub", "deep", "t" }

C21_DirDepth(dir) ==
    CASE dir = TopDir -> 0
      [] dir \in { "sub", "t" } -> 1
      [] OTHER -> 2

\* the directory whose listing holds item
C21_DirOf(item) ==
    CHOOSE dir \in C21_TreeDirs :
        \E k \in 1..Len(DirListing(TREE_HTTP, dir)) : DirListing(TREE_HTTP, dir)[k] = item

\* the crawl lists the server's tree: it is not a replay of the cache
C21_Fresh == lister.url \in TreeUrls /\ (~lister.paginated \/ lister.status = "Fetching from server")

C21_Emitted == { lister.emitted[k] : k \in 1..Len(lister.emitted) }

\* C21: a crawl with depth limit D asks only for directories at depth less
\* than D, emits no item that lies in a directory at depth D or deeper,
\* and, when it ends without a cancel and without an error, has emitted
\* every entry of every directory at depth less than D.
C21_DepthBound ==
    C21_Fresh =>
        /\ \A dir \in lister.listed \cup lister.failed :
              dir \in C21_TreeDirs /\ C21_DirDepth(dir) < lister.listing_depth
        /\ \A item \in C21_Emitted : C21_DirDepth(C21_DirOf(item)) < lister.listing_depth
        /\ ( lister.pc = "done" /\ ~lister.cancelled /\ lister.errors = 0 )
              => \A dir \in C21_TreeDirs :
                    C21_DirDepth(dir) < lister.listing_depth
                    => \A k \in 1..Len(DirListing(TREE_HTTP, dir)) :
                          DirListing(TREE_HTTP, dir)[k] \in C21_Emitted

\* items once emitted stay emitted, in their order
C22_NotWithdrawn ==
    [][ lister'.pc \notin { "run", "fetch" } \/ lister.pc \notin { "idle", "done" }
          => /\ Len(lister'.emitted) >= Len(lister.emitted)
             /\ SubSeq(lister'.emitted, 1, Len(lister.emitted)) = lister.emitted ]_vars

\* C22 as stated: after cancel() the crawl emits no item and makes no
\* listing request, fresh or replayed; what it has emitted stays emitted.
C22_NothingAfterCancel ==
    /\ [](lister.late_items = 0 /\ lister.late_requests = 0)
    /\ C22_NotWithdrawn

\* C22, amended: after cancel() the crawl emits at most the one item, or
\* makes at most the one listing request, whose cancel test it had already
\* passed, and nothing after that.
C22_AtMostOneAfterCancel ==
    /\ [](lister.late_items + lister.late_requests <= 1)
    /\ C22_NotWithdrawn

\* a crawl cancelled between the test and the emission of a directory's
\* item has emitted the item and ended without descending into it
C22_Witness ==
    /\ lister.pc = "done"
    /\ lister.cancelled
    /\ lister.late_items = 1
    /\ lister.emitted = << Dir("sub") >>
    /\ lister.requests = 1
    /\ lister.page_size = 0

\* the ancestors of a directory of the tree
C30_Ancestors(dir) ==
    CASE dir = TopDir -> {}
      [] dir = "deep" -> { TopDir, "sub" }
      [] OTHER -> { TopDir }

\* C30: when the request for a subdirectory fails, one error is emitted for
\* it and the crawl goes on: when it ends without a cancel it has emitted
\* every entry of every directory it listed, has asked for every directory
\* within the depth limit whose ancestors it listed, and has emitted
\* finished once.
C30_FailureIsolated ==
    ( /\ C21_Fresh
      /\ lister.pc = "done"
      /\ ~lister.cancelled
      /\ lister.failed \ { TopDir } # {} )
    => /\ lister.errors = Cardinality(lister.failed)
       /\ lister.finished = 1
       /\ \A dir \in lister.listed :
             \A k \in 1..Len(DirListing(TREE_HTTP, dir)) : DirListing(TREE_HTTP, dir)[k] \in C21_Emitted
       /\ \A dir \in C21_TreeDirs :
             ( /\ C21_DirDepth(dir) < lister.listing_depth
               /\ C30_Ancestors(dir) \subseteq lister.listed )
             => dir \in lister.listed \cup lister.failed

\* the request for sub was refused; the crawl has emitted the root's
\* entries after sub and the entry of t, and has ended
C30_Witness ==
    /\ lister.pc = "done"
    /\ ~lister.cancelled
    /\ lister.failed = { "sub" }
    /\ lister.emitted = << Dir("sub"), File("a.txt"), Dir("t"), File("y.txt") >>
    /\ lister.errors = 1
    /\ lister.finished = 1

\* the urls that have an entry in the memory tier
C23_Held(mem) == { mem[i].url : i \in 1..Len(mem) }

\* the memory tier holds at most its capacity of entries, one per url
C23_Bounded ==
    /\ Len(memory_cache) <= MemoryCacheSize
    /\ Cardinality(C23_Held(memory_cache)) = Len(memory_cache)

\* a set puts its url in; an entry leaves in a set only when the tier is
\* full and the url is new, and it is the entry whose last use is the
\* oldest
C23_EvictsLeastRecentlyUsed ==
    [][ cache_obs'.last.op = "mset" /\ cache_obs'.ops < cache_obs.ops
        => LET gone == C23_Held(memory_cache) \ C23_Held(memory_cache')
           IN /\ cache_obs'.last.url \in C23_Held(memory_cache')
              /\ ( Len(memory_cache) < MemoryCacheSize
                   \/ cache_obs'.last.url \in C23_Held(memory_cache) ) => gone = {}
              /\ \A e \in gone :
                    /\ gone = { e }
                    /\ \A k \in C23_Held(memory_cache) \ gone :
                          cache_obs.used[e] < cache_obs.used[k] ]_vars

\* C23: the memory tier never holds more entries than its capacity, and an
\* insertion into a full tier evicts the least recently used entry.
C23_MemoryTierBounded ==
    /\ [](C23_Bounded)
    /\ C23_EvictsLeastRecentlyUsed

\* the tier was full with an older entry that was read after the younger
\* one was put in; the insertion of a third url has evicted the younger one
C23_Witness ==
    \E a \in ListUrls : \E b \in ListUrls : \E c \in ListUrls :
        /\ cache_obs.last.op = "mset" /\ cache_obs.last.url = c
        /\ cache_obs.inserted[c] = cache_obs.used[c]
        /\ 0 < cache_obs.inserted[a] /\ cache_obs.inserted[a] < cache_obs.inserted[b]
        /\ cache_obs.inserted[b] = cache_obs.used[b]
        /\ cache_obs.used[b] < cache_obs.used[a]
        /\ cache_obs.used[a] < cache_obs.used[c]
        /\ Len(memory_cache) = MemoryCacheSize
        /\ a \in C23_Held(memory_cache) /\ b \notin C23_Held(memory_cache)

\* the step in which a crawl that missed the cache ends
C31_MissCrawlEnds ==
    /\ lister.paginated /\ lister.use_cache
    /\ lister.status = "Fetching from server"
    /\ lister'.finished = lister.finished + 1

\* C31: when a crawl that missed the cache ends after emitting at least one
\* item, a look-up of its root url in either tier gives exactly the items
\* it emitted, in the order of emission; when it ends without an item it
\* leaves both tiers as they were, and no earlier step of the crawl writes
\* to a tier.
C31_MissCrawlStored ==
    [][ /\ C31_MissCrawlEnds
           => IF lister.emitted # << >>
              THEN /\ lister'.emitted = lister.emitted
                   /\ DirectoryCacheGet(cache_dir', lister.url, now', cache_duration).result
                        = [ hit |-> TRUE, content |-> lister.emitted ]
                   /\ MemoryCacheGet(memory_cache', lister.url, now', cache_duration).result
                        = [ hit |-> TRUE, content |-> lister.emitted ]
              ELSE cache_dir' = cache_dir /\ memory_cache' = memory_cache
        /\ ( /\ lister.status = "Fetching from server"
             /\ lister.pc \notin { "idle", "done" }
             /\ ~C31_MissCrawlEnds )
           => cache_dir' = cache_dir /\ memory_cache' = memory_cache ]_vars

\* a crawl without a page size missed the cache, walked the whole tree and
\* ended; both tiers hold the seven items in the order of emission
C31_Witness ==
    /\ lister.pc = "done" /\ lister.use_cache
    /\ lister.status = "Fetching from server"
    /\ lister.emitted = << Dir("sub"), File("in.txt"), Dir("deep"), File("x.txt"),
                           File("a.txt"), Dir("t"), File("y.txt") >>
    /\ DirectoryCacheGet(cache_dir, lister.url, now, cache_duration).result.content
         = lister.emitted
    /\ MemoryCacheGet(memory_cache, lister.url, now, cache_duration).result.content
         = lister.emitted

\* a crawl is running
C32_Running == lister.pc \notin { "idle", "done" }

\* finished is emitted once, in the step that ends the crawl, and no item
\* is emitted in or after that step
C32_OneFinished ==
    /\ [](lister.finished = IF lister.pc = "done" THEN 1 ELSE 0)
    /\ [][ Len(lister'.emitted) > Len(lister.emitted)
             => lister.finished = 0 /\ lister'.finished = 0 ]_vars

\* C32: every crawl ends, also the crawl of a directory that links to
\* itself; it emits finished exactly once, and no item after it.
C32_CrawlTerminates ==
    /\ C32_Running ~> lister.pc = "done"
    /\ C32_OneFinished

\* the plain lister has crawled the directory that links to itself down to
\* the default depth limit and has ended
C32_Witness ==
    /\ lister.pc = "done" /\ lister.url = LOOP_HTTP
    /\ ~lister.cancelled /\ lister.errors = 0
    /\ lister.listing_depth = DefaultListingDepth
    /\ lister.requests = DefaultListingDepth
    /\ lister.emitted = << Dir(TopDir), Dir(TopDir), Dir(TopDir),
                           File("a.txt"), File("a.txt"), File("a.txt") >>
    /\ lister.finished = 1

\* every task's percentage lies in 0..100
C33_InRange == \A i \in 1..Len(downloads) : downloads[i].progress \in 0..100

\* the handler of a progress event sets the percentage of the url's task
\* to floor(100 * downloaded / total), and to 0 when total is 0
C33_Recomputed ==
    [][ OnFileProgressUpdate
        => \A i \in 1..Len(downloads) :
              ( downloads[i].url = Head(events).url
                /\ \A j \in 1..(i - 1) : downloads[j].url # Head(events).url )
              => downloads'[i].progress =
                    IF Head(events).b = 0 THEN 0
                    ELSE (100 * Head(events).a) \div Head(events).b ]_vars

\* C33: a task's percentage stays within 0..100; each progress event sets
\* it to floor(100 * downloaded / total), or to 0 when total is 0, also
\* for a transfer that resumed from a partial file and derived its total
\* when it began.
C33_ProgressPercent ==
    /\ [](C33_InRange)
    /\ C33_Recomputed

\* the pair of a task
C34_PairOf(d) == << d.url, d.rel_path >>

\* C34: every pair in the queue is the pair of a task that is Queued, every
\* task that is Queued has its pair in the queue, and no pair is in the
\* queue twice.
C34_QueueMatchesStatus ==
    /\ \A k \in 1..Len(download_queue) :
          \E i \in 1..Len(downloads) :
              C34_PairOf(downloads[i]) = download_queue[k] /\ downloads[i].status = "Queued"
    /\ \A i \in 1..Len(downloads) :
          downloads[i].status = "Queued"
          => \E k \in 1..Len(download_queue) : download_queue[k] = C34_PairOf(downloads[i])
    /\ \A k \in 1..Len(download_queue) : \A l \in 1..Len(download_queue) :
          download_queue[k] = download_queue[l] => k = l

\* C35: a Completed task keeps its status for ever, and a Failed or
\* Canceled task changes its status only in a retry_download of its url.
C35_TerminalStable ==
    [][ \A i \in 1..Len(downloads) :
           /\ i <= Len(downloads')
           /\ downloads[i].status = "Completed" => downloads'[i].status = "Completed"
           /\ ( /\ downloads[i].status \in { "Failed", "Canceled" }
                /\ downloads'[i].status # downloads[i].status )
              => RetryDownload(downloads[i].url) ]_vars

\* every transfer has come to an end (its thread has returned) and every
\* signal has been handled: no step of the program is left to take
C36_AtRest ==
    /\ calcs = << >>
    /\ events = << >>
    /\ \A i \in DOMAIN workers : workers[i].pc = "done"

\* C36: once every running transfer has finished, failed or been canceled
\* and its signals are handled, no task is left waiting in the queue: the
\* slot of a canceled Downloading task has gone to a waiting task.
C36_QueueDrains == C36_AtRest => download_queue = << >>

\* the terminal signals (finished, error) emitted in a step
C37_Emitted ==
    SelectSeq(SubSeq(events', Len(events) + 1, Len(events')),
              LAMBDA e : e.type \in { "finished", "error" })

\* C37: a worker emits at most one terminal signal, in the step in which
\* its run() returns: finished or error, never both, and none when the
\* worker was canceled; no other step emits a terminal signal.
C37_OneTerminalEvent ==
    [][ /\ Len(C37_Emitted) <= 1
        /\ \A k \in 1..Len(C37_Emitted) :
              \E i \in 1..Len(workers) :
                  /\ workers[i].seq = ( IF C37_Emitted[k].type = "finished"
                                        THEN C37_Emitted[k].b ELSE C37_Emitted[k].a )
                  /\ workers[i].pc # "done" /\ workers'[i].pc = "done"
                  /\ workers[i].running ]_vars

\* the worker that emitted the terminal signal e
C38_Sender(e) ==
    CHOOSE j \in 1..Len(workers) :
        workers[j].seq = IF e.type = "finished" THEN e.b ELSE e.a

\* the step handles a terminal signal of a worker that is not the worker
\* registered for its url
C38_StaleSignalHandled ==
    /\ events # << >>
    /\ Head(events).type \in { "finished", "error" }
    /\ events' = Tail(events)
    /\ active_workers[Head(events).url] # C38_Sender(Head(events))

\* C38: the handler of a finished or error signal whose sender is no
\* longer the worker registered for the url changes no task's status and
\* leaves the active pool as it is; a task becomes Completed only in the
\* handler of the finished signal of its own registered worker, whose
\* transfer ran to the end.
C38_StaleSignalIgnored ==
    [][ /\ C38_StaleSignalHandled
           => /\ active_workers' = active_workers
              /\ Len(downloads') = Len(downloads)
              /\ \A i \in 1..Len(downloads) : downloads'[i].status = downloads[i].status
        /\ \A i \in 1..Len(downloads) :
              ( downloads[i].status # "Completed" /\ downloads'[i].status = "Completed" )
              => /\ OnWorkerFinished
                 /\ active_workers[Head(events).url] = C38_Sender(Head(events))
                 /\ C25_OwnTask(workers[C38_Sender(Head(events))]) = i
                 /\ C10_TransferComplete(workers[C38_Sender(Head(events))]) ]_vars

\* C39: a crawl of the server that was cancelled, or in which a listing
\* request failed, writes nothing to either tier of the cache.
C39_NoPartialListingCached ==
    [][ ( /\ lister.status = "Fetching from server"
          /\ lister.cancelled \/ lister.errors > 0 )
        => cache_dir' = cache_dir /\ memory_cache' = memory_cache ]_vars

\* C40: the file a worker has opened for writing is the file_path recorded in
\* the task of its url and relative path.
C40_WritesFilePath ==
    \A i \in DOMAIN workers : \A k \in DOMAIN downloads :
        ( /\ downloads[k].url = workers[i].url
          /\ downloads[k].rel_path = workers[i].rel_path
          /\ FileExists(disk, LocalFilename(workers[i])) )
        => LocalFilename(workers[i]) = downloads[k].file_path

====
